---- MODULE Spec2Model ----
(***************************************************************************)
(* Model of simple-nus3audio-gui: the list of sound items of a nus3audio   *)
(* container, the per-item transcoding state (raw bytes, decoded PCM, loop *)
(* points), the external tools VGAudioCli and vgmstream, and the message   *)
(* handlers of the main event loop that operate on them.                   *)
(*                                                                         *)
(* Byte buffers are sequences of numbers.  Option<T> is a sequence of      *)
(* length 0 (None) or 1 (Some).  Result<T, String> is a record with field  *)
(* ok and either v (the value) or e (the error message).                   *)
(***************************************************************************)
EXTENDS Integers, Sequences, FiniteSets, TLC

VARIABLES
    file_list,  \* the List: name, path, items, modified       (list.rs 59-72)
    settings,   \* the Settings read by the transcoding code   (settings.rs 70)
    fn_args,    \* the arguments of a function called on its own
    fn_ret,     \* what that function returned (None: not called yet)
    playback    \* the Playback: play button and sound handle (playback.rs 41-58)

vars == <<file_list, settings, fn_args, fn_ret, playback>>

(***************************************************************************)
(* Option and Result                                                       *)
(***************************************************************************)
None == <<>>
Some(v) == <<v>>
IsSome(o) == Len(o) = 1
IsNone(o) == Len(o) = 0
Unwrap(o) == o[1]

Ok(v) == [ok |-> TRUE, v |-> v]
Err(e) == [ok |-> FALSE, e |-> e]

Min(a, b) == IF a < b THEN a ELSE b

(***************************************************************************)
(* Bounds of the model                                                     *)
(***************************************************************************)
\* Largest number the user types into a loop input of the properties dialog.
MaxLoopInput == 1
\* Largest number of items in the list, and of records in a container opened.
MaxItems == 1
\* Longest byte buffer handed to extension_of_encoded on its own.
MaxEncodedLen == 5

(***************************************************************************)
(* Byte buffers used as inputs                                             *)
(***************************************************************************)
\* "IDSP", "RIFF" in ASCII
IDSP_MAGIC == <<73, 68, 83, 80>>
RIFF_MAGIC == <<82, 73, 70, 70>>

\* The WAV container as the wav crate writes and reads it: the RIFF tag, the
\* header (channel count, sampling rate, bits per sample), then the samples.
wav_write(channels, sampling_rate, bits, samples) ==
    RIFF_MAGIC \o <<channels, sampling_rate, bits>> \o samples

wav_read(bytes) ==
    IF Len(bytes) >= Len(RIFF_MAGIC) + 3 /\ SubSeq(bytes, 1, Len(RIFF_MAGIC)) = RIFF_MAGIC
    THEN Ok([channel_count |-> bytes[Len(RIFF_MAGIC) + 1],
             sampling_rate |-> bytes[Len(RIFF_MAGIC) + 2],
             bits          |-> bytes[Len(RIFF_MAGIC) + 3],
             data          |-> SubSeq(bytes, Len(RIFF_MAGIC) + 4, Len(bytes))])
    ELSE Err("Error reading returned wav")

(***************************************************************************)
(* AudioExtension and extension_of_encoded                                 *)
(***************************************************************************)
Idsp == "idsp"
Lopus == "lopus"
Bin == "bin"
AudioExtension == {Idsp, Lopus, Bin}

\* extension_of_encoded with the fallback to .bin of AudioFile::filename
extension_of_encoded_bin_fallback(encoded) ==
    IF Len(encoded) < 4 THEN Ok("bin")
    ELSE IF SubSeq(encoded, 1, 4) = IDSP_MAGIC THEN Ok("idsp")
    ELSE Ok("lopus")

extension_of_encoded(encoded) ==
    IF Len(encoded) < 4 THEN Err("Not a valid file")
    ELSE IF SubSeq(encoded, 1, 4) = IDSP_MAGIC THEN Ok(Idsp)
    ELSE Ok(Lopus)

(***************************************************************************)
(* ListItem                                                                *)
(***************************************************************************)
ListItem_new(name) ==
    [name                |-> name,
     extension           |-> Idsp,
     audio_raw           |-> None,
     bytes_raw           |-> None,
     loop_points_samples |-> None,
     length_in_samples   |-> 0,
     sample_rate         |-> 12000,
     channels            |-> 1]

loop_points(item) == item.loop_points_samples

loop_end(item) ==
    IF IsSome(item.loop_points_samples)
    THEN Some(Unwrap(item.loop_points_samples)[2])
    ELSE None

\* rodio::Decoder::new on a byte buffer.  The inputs of the model that rodio
\* can decode are WAV files; everything else is an unrecognised format.
rodio_Decoder_new(raw) ==
    LET w == wav_read(raw) IN
    IF w.ok
    THEN Ok([sample_rate |-> w.v.sampling_rate,
             channels    |-> w.v.channel_count,
             samples     |-> w.v.data])
    ELSE Err("Unrecognized format")

\* The sample rate chosen with < in the place of <=
lopus_sample_rate_exclusive(decoder_sample_rate) ==
    IF decoder_sample_rate < 8000 THEN 8000
    ELSE IF decoder_sample_rate < 12000 THEN 12000
    ELSE IF decoder_sample_rate < 16000 THEN 16000
    ELSE IF decoder_sample_rate < 24000 THEN 24000
    ELSE 48000

\* The sample rate EncodedFile::rodio_decode_resample resamples to.
rodio_decode_resample_sample_rate(decoder_sample_rate) ==
    IF decoder_sample_rate <= 8000 THEN 8000
    ELSE IF decoder_sample_rate <= 12000 THEN 12000
    ELSE IF decoder_sample_rate <= 16000 THEN 16000
    ELSE IF decoder_sample_rate <= 24000 THEN 24000
    ELSE 48000

\* The sample rate set_audio_raw resamples to.
lopus_sample_rate(decoder_sample_rate) ==
    IF decoder_sample_rate <= 8000 THEN 8000
    ELSE IF decoder_sample_rate <= 12000 THEN 12000
    ELSE IF decoder_sample_rate <= 16000 THEN 16000
    ELSE IF decoder_sample_rate <= 24000 THEN 24000
    ELSE 48000

\* fon::Audio::with_audio: `decoded` (interleaved, `channel_count` channels)
\* resampled from rate `from` to rate `to`; each output frame takes the input
\* frame at the same point in time.
fon_with_audio(decoded, channel_count, from, to) ==
    LET frames_in  == Len(decoded) \div channel_count
        frames_out == (frames_in * to + from - 1) \div from
    IN [k \in 1..(frames_out * channel_count) |->
            LET frame == (k - 1) \div channel_count
                chan  == (k - 1) % channel_count
                src   == Min((frame * from) \div to, frames_in - 1)
            IN decoded[src * channel_count + chan + 1]]

\* set_audio_raw with the last assignment of each branch left out: the bytes
\* of the previous audio survive a successful decode and undecodable input
\* is dropped.
set_audio_raw_lose_bytes(item, raw) ==
    LET decoder == rodio_Decoder_new(raw) IN
    IF ~decoder.ok
    THEN [item EXCEPT !.loop_points_samples = None,
                      !.extension = Bin,
                      !.audio_raw = None,
                      !.bytes_raw = None]
    ELSE LET r == decoder.v.sample_rate
             sr == lopus_sample_rate(r)
             cc == IF decoder.v.channels = 1 THEN 1 ELSE 2
             decoded == IF r # sr THEN fon_with_audio(decoder.v.samples, cc, r, sr)
                        ELSE decoder.v.samples
         IN [item EXCEPT !.length_in_samples = Len(decoded) \div cc,
                         !.sample_rate = sr,
                         !.channels = cc,
                         !.audio_raw = Some(decoded),
                         !.loop_points_samples = None]

\* set_audio_raw keeping the channel count of the decoder
set_audio_raw_keep_channels(item, raw) ==
    LET decoder == rodio_Decoder_new(raw) IN
    IF ~decoder.ok
    THEN [item EXCEPT !.loop_points_samples = None,
                      !.extension = Bin,
                      !.audio_raw = None,
                      !.bytes_raw = Some(raw)]
    ELSE LET r == decoder.v.sample_rate
             sr == lopus_sample_rate(r)
             cc == decoder.v.channels
             decoded == IF r # sr THEN fon_with_audio(decoder.v.samples, cc, r, sr)
                        ELSE decoder.v.samples
         IN [item EXCEPT !.length_in_samples = Len(decoded) \div cc,
                         !.sample_rate = sr,
                         !.channels = cc,
                         !.audio_raw = Some(decoded),
                         !.loop_points_samples = None,
                         !.bytes_raw = None]

\* ListItem::set_audio_raw: the item after the call (the call always returns Ok).
set_audio_raw(item, raw) ==
    LET decoder == rodio_Decoder_new(raw) IN
    IF ~decoder.ok
    THEN [item EXCEPT !.loop_points_samples = None,
                      !.extension = Bin,
                      !.audio_raw = None,
                      !.bytes_raw = Some(raw)]
    ELSE LET decoder_sample_rate == decoder.v.sample_rate
             sample_rate == lopus_sample_rate(decoder_sample_rate)
             channel_count == IF decoder.v.channels = 1 THEN 1 ELSE 2
             decoded == IF decoder_sample_rate # sample_rate
                        THEN fon_with_audio(decoder.v.samples, channel_count,
                                            decoder_sample_rate, sample_rate)
                        ELSE decoder.v.samples
         IN [item EXCEPT !.length_in_samples = Len(decoded) \div channel_count,
                         !.sample_rate = sample_rate,
                         !.channels = channel_count,
                         !.audio_raw = Some(decoded),
                         !.loop_points_samples = None,
                         !.bytes_raw = None]

\* ListItem::clear_bytes
clear_bytes(item) == [item EXCEPT !.bytes_raw = None]

\* get_audio_wav writing every sample, whatever the end asked for
get_audio_wav_untruncated(item, end) ==
    IF IsSome(item.audio_raw)
    THEN Ok(wav_write(item.channels, item.sample_rate, 16, Unwrap(item.audio_raw)))
    ELSE IF IsNone(item.bytes_raw)
         THEN Err("Selected item is empty")
         ELSE Err("Selected item could not be decoded")

\* ListItem::get_audio_wav
get_audio_wav(item, end) ==
    IF IsSome(item.audio_raw)
    THEN LET raw == Unwrap(item.audio_raw)
             n == IF IsSome(end)
                  THEN LET sample_length == Unwrap(end) * item.channels
                       IN IF Len(raw) < sample_length THEN Len(raw) ELSE sample_length
                  ELSE Len(raw)
         IN Ok(wav_write(item.channels, item.sample_rate, 16, SubSeq(raw, 1, n)))
    ELSE IF IsNone(item.bytes_raw)
         THEN Err("Selected item is empty")
         ELSE Err("Selected item could not be decoded")

(***************************************************************************)
(* Names and paths.  A name (of an item, a container, a file) is the       *)
(* sequence of the parts between its dots: "a.b" is <<"a", "b">>, the      *)
(* empty name is <<"">>; a part holds no dot and no path separator.  A     *)
(* path is the sequence of the names of its components, counted from the   *)
(* cache directory of the user.                                            *)
(***************************************************************************)
Name(text) == <<text>>
EmptyName == <<"">>
\* The names "." and ".."
CurDir == <<"", "">>
ParentDir == <<"", "", "">>

\* settings::CACHEDIR: emptied and created by Settings::reset_cache before
\* the event loop starts
CACHEDIR == <<Name("cache")>>

\* Path::join with one component: joining "" or "." names the same directory
join(path, name) == IF name \in {EmptyName, CurDir} THEN path ELSE Append(path, name)

\* The directory a transcode for the container nus3audio_name works in
target_dir(nus3audio_name) == join(CACHEDIR, nus3audio_name)

\* A name that has no dot, that begins with its only dot, or that is ".."
\* is not split at a dot
IsUnsplit(name) ==
    name = ParentDir \/ Len(name) = 1 \/ (Len(name) = 2 /\ name[1] = "")

\* Path::file_stem of a file name: what stands before its last dot, the
\* whole name when it is not split
file_stem(name) ==
    IF IsUnsplit(name) THEN name ELSE SubSeq(name, 1, Len(name) - 1)

\* Path::extension of a file name: what follows its last dot
path_extension(name) ==
    IF IsUnsplit(name) THEN <<>> ELSE <<name[Len(name)]>>

\* PathBuf::set_extension on the last component: ".." is no file name, and
\* the path stays as it is
set_extension(name, ext) ==
    IF name = ParentDir THEN name
    ELSE IF ext = "" THEN file_stem(name)
    ELSE Append(file_stem(name), ext)

\* Path::with_extension: the path is copied without as many of its last
\* bytes as its extension has, and set_extension works on the copy.  When
\* the path ends in its file name the copy ends in the dot before the
\* extension; for the name "..a" that copy ends in "..", which is no file
\* name.  When the path ends in a separator (`trailing`: "" or "." was
\* joined last) the bytes left out are the separator and a part of the
\* extension, and the copy keeps the dot and what stands before it.
with_extension_of(path, trailing, ext) ==
    LET \* A path may end in "/." (set_extension left the stem "." of a name
        \* "..a"): the components of a path leave a last "." out, so that
        \* the file name is the component before it and the path ends in a
        \* separator.
        dot == IF path = <<>> THEN FALSE ELSE path[Len(path)] = CurDir
        named == IF dot THEN SubSeq(path, 1, Len(path) - 1) ELSE path
    IN IF named = <<>> THEN named
       ELSE [named EXCEPT ![Len(named)] =
                set_extension(IF path_extension(@) # <<>> /\ ~(trailing \/ dot)
                              THEN [@ EXCEPT ![Len(@)] = ""]
                              ELSE @,
                              ext)]

\* Path::with_extension of a path that ends in its file name
with_extension(path, ext) == with_extension_of(path, FALSE, ext)

(***************************************************************************)
(* External tools.  A run of a tool is an input of the model: whether the  *)
(* process could be started, its exit code (None when it was killed), and  *)
(* what it left behind (the destination file, or its standard output).     *)
(***************************************************************************)
\* The file a transcode of the item `name` of the container `dir` works on:
\* CACHEDIR.join(dir).join(name).with_extension(ext)
CachePath(dir, name, ext) ==
    with_extension_of(join(target_dir(dir), name), name \in {EmptyName, CurDir}, ext)

\* vgaudio_cli_decode handing the destination file over before the source
vgaudio_cli_decode_swapped(item, src_file, dest_file, s, run) ==
    LET vgaudio_cli_path == s.vgaudio_cli_path IN
    IF vgaudio_cli_path = ""
    THEN [ret |-> Err("VGAudiCli path is empty"), cmds |-> <<>>]
    ELSE
    LET head == IF s.vgaudio_cli_prepath # ""
                THEN [program |-> s.vgaudio_cli_prepath, args |-> <<<<vgaudio_cli_path>>>>]
                ELSE [program |-> vgaudio_cli_path, args |-> <<>>]
        conv == <<<<"-c">>, dest_file, src_file>>
        loop == IF IsSome(item.loop_points_samples)
                THEN LET lp == Unwrap(item.loop_points_samples)
                     IN <<<<"-l">>, <<ToString(lp[1]), "-", ToString(lp[2])>>,
                          <<"--cbr">>, <<"--opusheader">>, <<"namco">>>>
                ELSE <<>>
        command == [program |-> head.program, args |-> head.args \o conv \o loop]
        ret == IF ~run.spawn THEN Err("Error running VGAudioCli")
               ELSE IF IsNone(run.code)
                    THEN Err("Attempted running VGAudioCli, didn't get any exit code")
               ELSE IF Unwrap(run.code) # 0
                    THEN Err("Attempted running VGAudioCli, found exit code")
               ELSE IF IsNone(run.dest) THEN Err("Error reading destination file")
               ELSE Ok(Unwrap(run.dest))
    IN [ret |-> ret, cmds |-> <<command>>]

\* ListItem::vgaudio_cli_decode: [ret, cmds], cmds the commands handed to the
\* operating system.
vgaudio_cli_decode(item, src_file, dest_file, s, run) ==
    LET vgaudio_cli_path == s.vgaudio_cli_path IN
    IF vgaudio_cli_path = ""
    THEN [ret |-> Err("VGAudiCli path is empty"), cmds |-> <<>>]
    ELSE
    LET head == IF s.vgaudio_cli_prepath # ""
                THEN [program |-> s.vgaudio_cli_prepath, args |-> <<<<vgaudio_cli_path>>>>]
                ELSE [program |-> vgaudio_cli_path, args |-> <<>>]
        conv == <<<<"-c">>, src_file, dest_file>>
        loop == IF IsSome(item.loop_points_samples)
                THEN LET lp == Unwrap(item.loop_points_samples)
                     IN <<<<"-l">>, <<ToString(lp[1]), "-", ToString(lp[2])>>,
                          <<"--cbr">>, <<"--opusheader">>, <<"namco">>>>
                ELSE <<>>
        command == [program |-> head.program, args |-> head.args \o conv \o loop]
        ret == IF ~run.spawn THEN Err("Error running VGAudioCli")
               ELSE IF IsNone(run.code)
                    THEN Err("Attempted running VGAudioCli, didn't get any exit code")
               ELSE IF Unwrap(run.code) # 0
                    THEN Err("Attempted running VGAudioCli, found exit code")
               ELSE IF IsNone(run.dest) THEN Err("Error reading destination file")
               ELSE Ok(Unwrap(run.dest))
    IN [ret |-> ret, cmds |-> <<command>>]

\* ListItem::vgmstream_decode
vgmstream_decode(src_file, s, run) ==
    LET vgmstream_path == s.vgmstream_path IN
    IF vgmstream_path = ""
    THEN [ret |-> Err("vgmstream path is empty"), cmds |-> <<>>]
    ELSE
    LET command == [program |-> vgmstream_path, args |-> <<<<"-p">>, src_file>>]
        ret == IF ~run.spawn THEN Err("Error running vgmstream")
               ELSE IF IsSome(run.code) /\ Unwrap(run.code) # 0
                    THEN Err("Attempted running vgmstream, found exit code")
               ELSE Ok(run.stdout)
    IN [ret |-> ret, cmds |-> <<command>>]

\* json::JsonValue, as far as loop_points_of reads it
JNull == [t |-> "null"]
JNumber(n) == [t |-> "number", n |-> n]
JString(x) == [t |-> "string", s |-> x]
JObject(m) == [t |-> "object", m |-> m]
JIndex(value, key) ==
    IF value.t = "object" /\ key \in DOMAIN value.m THEN value.m[key] ELSE JNull
as_usize(value) == IF value.t = "number" /\ value.n >= 0 THEN Some(value.n) ELSE None

\* vgmstream_metadata starting vgmstream whatever its path is
vgmstream_metadata_unguarded(src_file, s, run) ==
    LET command == [program |-> s.vgmstream_path, args |-> <<<<"-mI">>, src_file>>]
        ret == IF ~run.spawn THEN Err("Error running vgmstream")
               ELSE IF IsSome(run.code) /\ Unwrap(run.code) # 0
                    THEN Err("Attempted running vgmstream, found exit code")
               ELSE IF ~run.stdout.utf8 THEN Err("Error reading vgmstream output")
               ELSE IF IsNone(run.stdout.json) THEN Err("Error parsing vgmstream output")
               ELSE Ok(Unwrap(run.stdout.json))
    IN [ret |-> ret, cmds |-> <<command>>]

\* ListItem::vgmstream_metadata.  The standard output of a metadata run is
\* given by what reading it yields: utf8 (is it text), json (None when the
\* text is no JSON document, else the document).
vgmstream_metadata(src_file, s, run) ==
    LET vgmstream_path == s.vgmstream_path IN
    IF vgmstream_path = ""
    THEN [ret |-> Err("vgmstream path is empty"), cmds |-> <<>>]
    ELSE
    LET command == [program |-> vgmstream_path, args |-> <<<<"-mI">>, src_file>>]
        ret == IF ~run.spawn THEN Err("Error running vgmstream")
               ELSE IF IsSome(run.code) /\ Unwrap(run.code) # 0
                    THEN Err("Attempted running vgmstream, found exit code")
               ELSE IF ~run.stdout.utf8 THEN Err("Error reading vgmstream output")
               ELSE IF IsNone(run.stdout.json) THEN Err("Error parsing vgmstream output")
               ELSE Ok(Unwrap(run.stdout.json))
    IN [ret |-> ret, cmds |-> <<command>>]

\* loop_points_of without the check that the end is placed after the start
loop_points_of_any_order(src_file, s, run) ==
    LET m == vgmstream_metadata(src_file, s, run)
        found ==
            IF m.ret.ok
            THEN LET loop_info == JIndex(m.ret.v, "loopingInfo") IN
                 IF loop_info.t = "object"
                 THEN LET start == as_usize(JIndex(loop_info, "start"))
                          end   == as_usize(JIndex(loop_info, "end"))
                      IN IF IsSome(start) /\ IsSome(end)
                         THEN Some(<<Unwrap(start), Unwrap(end)>>)
                         ELSE None
                 ELSE None
            ELSE None
    IN [ret |-> found, cmds |-> m.cmds]

\* ListItem::loop_points_of: [ret, cmds], ret an Option<(usize, usize)>
loop_points_of(src_file, s, run) ==
    LET m == vgmstream_metadata(src_file, s, run)
        found ==
            IF m.ret.ok
            THEN LET loop_info == JIndex(m.ret.v, "loopingInfo") IN
                 IF loop_info.t = "object"
                 THEN LET start == as_usize(JIndex(loop_info, "start"))
                          end   == as_usize(JIndex(loop_info, "end"))
                      IN IF IsSome(start) /\ IsSome(end) /\ Unwrap(end) > Unwrap(start)
                         THEN Some(<<Unwrap(start), Unwrap(end)>>)
                         ELSE None
                 ELSE None
            ELSE None
    IN [ret |-> found, cmds |-> m.cmds]

\* decode trying the other tool when the one it chose fails
decode_with_retry(item, src_file, s, env) ==
    LET cli == vgaudio_cli_decode(item, src_file, with_extension(src_file, "wav"), s,
                                  env.vgaudio)
        vgmstream == vgmstream_decode(src_file, s, env.vgmstream)
        vgmstream_first == IF s.prefer_vgmstream_decode
                           THEN s.vgmstream_path # ""
                           ELSE s.vgaudio_cli_path = ""
        first == IF vgmstream_first THEN vgmstream ELSE cli
        second == IF vgmstream_first THEN cli ELSE vgmstream
    IN IF first.ret.ok THEN first
       ELSE [ret |-> second.ret, cmds |-> first.cmds \o second.cmds]

\* ListItem::decode
decode(item, src_file, s, env) ==
    IF s.prefer_vgmstream_decode
    THEN IF s.vgmstream_path # ""
         THEN vgmstream_decode(src_file, s, env.vgmstream)
         ELSE vgaudio_cli_decode(item, src_file, with_extension(src_file, "wav"), s, env.vgaudio)
    ELSE IF s.vgaudio_cli_path # ""
         THEN vgaudio_cli_decode(item, src_file, with_extension(src_file, "wav"), s, env.vgaudio)
         ELSE vgmstream_decode(src_file, s, env.vgmstream)

(***************************************************************************)
(* Transcoding: import (from_encoded) and export (get_nus3_encoded_raw).   *)
(* env is what the file system and the tools do during the call: mkdir and *)
(* write (do create_target_dir and fs::write succeed), and one run of each *)
(* tool.                                                                   *)
(***************************************************************************)
\* from_encoded with a failed decode treated as fatal: the error of the tool
\* is returned and the item is left alone.
from_encoded_decode_fatal(item, nus3audio_name, encoded, s, env) ==
    LET ext == extension_of_encoded(encoded)
        stop(e) == [item |-> item, ret |-> Err(e), cmds |-> <<>>]
    IN
    IF ~ext.ok THEN stop(ext.e)
    ELSE IF ~env.mkdir THEN stop("Error creating cache subdirectory")
    ELSE IF ~env.write THEN stop("Error writing source file")
    ELSE
    LET src_file == CachePath(nus3audio_name, item.name, ext.v)
        d == decode(item, src_file, s, env)
    IN
    IF d.ret.ok
    THEN LET raw == d.ret.v
             lp == loop_points_of(src_file, s, env.metadata)
             wav_result == wav_read(raw)
             cmds == d.cmds \o lp.cmds
         IN IF wav_result.ok
            THEN IF wav_result.v.bits = 16
                 THEN [item |-> [item EXCEPT !.bytes_raw = Some(raw),
                                             !.audio_raw = Some(wav_result.v.data),
                                             !.channels = wav_result.v.channel_count,
                                             !.sample_rate = wav_result.v.sampling_rate,
                                             !.loop_points_samples = lp.ret],
                       ret |-> Ok(<<>>), cmds |-> cmds]
                 ELSE [item |-> item,
                       ret |-> Err("Error reading returned wav: Wrong bit depth found"),
                       cmds |-> cmds]
            ELSE [item |-> item, ret |-> Err("Error reading returned wav"),
                  cmds |-> cmds]
    ELSE [item |-> item, ret |-> Err(d.ret.e), cmds |-> d.cmds]

\* from_encoded with an unreadable WAV treated like a failed decode: the item
\* falls back to Bin with the input bytes and the call returns Ok.
from_encoded_wav_fallback(item, nus3audio_name, encoded, s, env) ==
    LET ext == extension_of_encoded(encoded)
        stop(e) == [item |-> item, ret |-> Err(e), cmds |-> <<>>]
    IN
    IF ~ext.ok THEN stop(ext.e)
    ELSE IF ~env.mkdir THEN stop("Error creating cache subdirectory")
    ELSE IF ~env.write THEN stop("Error writing source file")
    ELSE
    LET src_file == CachePath(nus3audio_name, item.name, ext.v)
        d == decode(item, src_file, s, env)
    IN
    IF d.ret.ok
    THEN LET raw == d.ret.v
             lp == loop_points_of(src_file, s, env.metadata)
             wav_result == wav_read(raw)
             cmds == d.cmds \o lp.cmds
             fallback == [item |-> [item EXCEPT !.bytes_raw = Some(encoded),
                                                   !.audio_raw = None,
                                                   !.extension = Bin,
                                                   !.loop_points_samples = None],
                             ret |-> Ok(<<>>), cmds |-> cmds]
         IN IF wav_result.ok
            THEN IF wav_result.v.bits = 16
                 THEN [item |-> [item EXCEPT !.bytes_raw = Some(raw),
                                             !.audio_raw = Some(wav_result.v.data),
                                             !.channels = wav_result.v.channel_count,
                                             !.sample_rate = wav_result.v.sampling_rate,
                                             !.loop_points_samples = lp.ret],
                       ret |-> Ok(<<>>), cmds |-> cmds]
                 ELSE fallback
            ELSE fallback
    ELSE [item |-> [item EXCEPT !.bytes_raw = Some(encoded),
                                !.audio_raw = None,
                                !.extension = Bin,
                                !.loop_points_samples = None],
          ret |-> Ok(<<>>), cmds |-> d.cmds]

\* from_encoded keeping what the tool returned before it looks at the bit
\* depth
from_encoded_wav_partial(item, nus3audio_name, encoded, s, env) ==
    LET ext == extension_of_encoded(encoded)
        stop(e) == [item |-> item, ret |-> Err(e), cmds |-> <<>>]
    IN
    IF ~ext.ok THEN stop(ext.e)
    ELSE IF ~env.mkdir THEN stop("Error creating cache subdirectory")
    ELSE IF ~env.write THEN stop("Error writing source file")
    ELSE
    LET src_file == CachePath(nus3audio_name, item.name, ext.v)
        d == decode(item, src_file, s, env)
    IN
    IF d.ret.ok
    THEN LET raw == d.ret.v
             lp == loop_points_of(src_file, s, env.metadata)
             wav_result == wav_read(raw)
             cmds == d.cmds \o lp.cmds
         IN IF wav_result.ok
            THEN IF wav_result.v.bits = 16
                 THEN [item |-> [item EXCEPT !.bytes_raw = Some(raw),
                                             !.audio_raw = Some(wav_result.v.data),
                                             !.channels = wav_result.v.channel_count,
                                             !.sample_rate = wav_result.v.sampling_rate,
                                             !.loop_points_samples = lp.ret],
                       ret |-> Ok(<<>>), cmds |-> cmds]
                 ELSE [item |-> [item EXCEPT !.bytes_raw = Some(raw)],
                       ret |-> Err("Error reading returned wav: Wrong bit depth found"),
                       cmds |-> cmds]
            ELSE [item |-> item, ret |-> Err("Error reading returned wav"),
                  cmds |-> cmds]
    ELSE [item |-> [item EXCEPT !.bytes_raw = Some(encoded),
                                !.audio_raw = None,
                                !.extension = Bin,
                                !.loop_points_samples = None],
          ret |-> Ok(<<>>), cmds |-> d.cmds]

\* ListItem::from_encoded: [item, ret, cmds]
from_encoded(item, nus3audio_name, encoded, s, env) ==
    LET ext == extension_of_encoded(encoded)
        stop(e) == [item |-> item, ret |-> Err(e), cmds |-> <<>>]
    IN
    IF ~ext.ok THEN stop(ext.e)
    ELSE IF ~env.mkdir THEN stop("Error creating cache subdirectory")
    ELSE IF ~env.write THEN stop("Error writing source file")
    ELSE
    LET src_file == CachePath(nus3audio_name, item.name, ext.v)
        d == decode(item, src_file, s, env)
    IN
    IF d.ret.ok
    THEN LET raw == d.ret.v
             lp == loop_points_of(src_file, s, env.metadata)
             wav_result == wav_read(raw)
             cmds == d.cmds \o lp.cmds
         IN IF wav_result.ok
            THEN IF wav_result.v.bits = 16
                 THEN [item |-> [item EXCEPT !.bytes_raw = Some(raw),
                                             !.audio_raw = Some(wav_result.v.data),
                                             !.channels = wav_result.v.channel_count,
                                             !.sample_rate = wav_result.v.sampling_rate,
                                             !.loop_points_samples = lp.ret],
                       ret |-> Ok(<<>>), cmds |-> cmds]
                 ELSE [item |-> item,
                       ret |-> Err("Error reading returned wav: Wrong bit depth found"),
                       cmds |-> cmds]
            ELSE [item |-> item, ret |-> Err("Error reading returned wav"),
                  cmds |-> cmds]
    ELSE [item |-> [item EXCEPT !.bytes_raw = Some(encoded),
                                !.audio_raw = None,
                                !.extension = Bin,
                                !.loop_points_samples = None],
          ret |-> Ok(<<>>), cmds |-> d.cmds]

\* get_nus3_encoded_raw without the assignment to bytes_raw: what the tool
\* encoded is returned but not kept.
get_nus3_encoded_raw_uncached(item, nus3audio_name, extension, s, env) ==
    IF IsNone(item.audio_raw)
    THEN [item |-> item, ret |-> Err("Audio of selected item is empty"), cmds |-> <<>>, src |-> None]
    ELSE IF IsSome(item.bytes_raw)
    THEN [item |-> item, ret |-> Ok(Unwrap(item.bytes_raw)), cmds |-> <<>>, src |-> None]
    ELSE
    LET dest_file == CachePath(nus3audio_name, item.name, extension)
        src_file == with_extension(dest_file, "wav")
    IN
    IF ~env.mkdir
    THEN [item |-> item, ret |-> Err("Error creating cache subdirectory"), cmds |-> <<>>, src |-> None]
    ELSE
    LET wav == get_audio_wav(item, loop_end(item)) IN
    IF ~wav.ok
    THEN [item |-> item, ret |-> Err("Error decoding audio"), cmds |-> <<>>, src |-> None]
    ELSE IF ~env.write
    THEN [item |-> item, ret |-> Err("Error writing source file"), cmds |-> <<>>, src |-> None]
    ELSE
    LET t == vgaudio_cli_decode(item, src_file, dest_file, s, env.vgaudio) IN
    IF t.ret.ok
    THEN [item |-> item, ret |-> Ok(t.ret.v), cmds |-> t.cmds,
          src |-> Some(wav.v)]
    ELSE [item |-> item, ret |-> t.ret, cmds |-> t.cmds,
          src |-> Some(wav.v)]

\* get_nus3_encoded_raw looking for the audio only after the cache
\* subdirectory was created
get_nus3_encoded_raw_late_check(item, nus3audio_name, extension, s, env) ==
    IF IsSome(item.bytes_raw) /\ IsSome(item.audio_raw)
    THEN [item |-> item, ret |-> Ok(Unwrap(item.bytes_raw)), cmds |-> <<>>, src |-> None]
    ELSE
    LET dest_file == CachePath(nus3audio_name, item.name, extension)
        src_file == with_extension(dest_file, "wav")
    IN
    IF ~env.mkdir
    THEN [item |-> item, ret |-> Err("Error creating cache subdirectory"), cmds |-> <<>>, src |-> None]
    ELSE IF IsNone(item.audio_raw)
    THEN [item |-> item, ret |-> Err("Audio of selected item is empty"), cmds |-> <<>>, src |-> None]
    ELSE
    LET wav == get_audio_wav(item, loop_end(item)) IN
    IF ~wav.ok
    THEN [item |-> item, ret |-> Err("Error decoding audio"), cmds |-> <<>>, src |-> None]
    ELSE IF ~env.write
    THEN [item |-> item, ret |-> Err("Error writing source file"), cmds |-> <<>>, src |-> None]
    ELSE
    LET t == vgaudio_cli_decode(item, src_file, dest_file, s, env.vgaudio) IN
    IF t.ret.ok
    THEN [item |-> [item EXCEPT !.bytes_raw = Some(t.ret.v)], ret |-> Ok(t.ret.v), cmds |-> t.cmds,
          src |-> Some(wav.v)]
    ELSE [item |-> item, ret |-> t.ret, cmds |-> t.cmds,
          src |-> Some(wav.v)]

\* ListItem::get_nus3_encoded_raw: [item, ret, cmds, src], src being what was
\* written to the source file of the encoder
get_nus3_encoded_raw(item, nus3audio_name, extension, s, env) ==
    IF IsNone(item.audio_raw)
    THEN [item |-> item, ret |-> Err("Audio of selected item is empty"), cmds |-> <<>>, src |-> None]
    ELSE IF IsSome(item.bytes_raw)
    THEN [item |-> item, ret |-> Ok(Unwrap(item.bytes_raw)), cmds |-> <<>>, src |-> None]
    ELSE
    LET dest_file == CachePath(nus3audio_name, item.name, extension)
        src_file == with_extension(dest_file, "wav")
    IN
    IF ~env.mkdir
    THEN [item |-> item, ret |-> Err("Error creating cache subdirectory"), cmds |-> <<>>, src |-> None]
    ELSE
    LET wav == get_audio_wav(item, loop_end(item)) IN
    IF ~wav.ok
    THEN [item |-> item, ret |-> Err("Error decoding audio"), cmds |-> <<>>, src |-> None]
    ELSE IF ~env.write
    THEN [item |-> item, ret |-> Err("Error writing source file"), cmds |-> <<>>, src |-> None]
    ELSE
    LET t == vgaudio_cli_decode(item, src_file, dest_file, s, env.vgaudio) IN
    IF t.ret.ok
    THEN [item |-> [item EXCEPT !.bytes_raw = Some(t.ret.v)], ret |-> Ok(t.ret.v), cmds |-> t.cmds,
          src |-> Some(wav.v)]
    ELSE [item |-> item, ret |-> t.ret, cmds |-> t.cmds,
          src |-> Some(wav.v)]

(***************************************************************************)
(* The properties dialog (item_properties::configure).  dlg is the dialog  *)
(* when its window closes: the text of the three inputs, the radio button  *)
(* that is on, the state of the loop check box, and whether Ok was         *)
(* accepted.  Text is a sequence of characters.                            *)
(***************************************************************************)
Digits == <<"0", "1", "2", "3", "4", "5", "6", "7", "8", "9">>
IsDigit(c) == \E d \in 1..Len(Digits) : Digits[d] = c
DigitValue(c) == (CHOOSE d \in 1..Len(Digits) : Digits[d] = c) - 1

RECURSIVE parse_digits(_, _)
parse_digits(text, acc) ==
    IF text = <<>> THEN acc
    ELSE parse_digits(Tail(text), acc * 10 + DigitValue(Head(text)))

\* usize::MAX in decimal digits (usize has 64 bits)
USIZE_MAX_TEXT ==
    <<"1", "8", "4", "4", "6", "7", "4", "4", "0", "7",
      "3", "7", "0", "9", "5", "5", "1", "6", "1", "5">>

RECURSIVE strip_zeros(_)
strip_zeros(text) ==
    IF text # <<>> /\ Head(text) = "0" THEN strip_zeros(Tail(text)) ELSE text

\* Of two digit texts of one length, is the first the greater number
RECURSIVE digits_greater(_, _)
digits_greater(a, b) ==
    IF a = <<>> THEN FALSE
    ELSE IF Head(a) # Head(b) THEN DigitValue(Head(a)) > DigitValue(Head(b))
    ELSE digits_greater(Tail(a), Tail(b))

\* Does the number written by the digits exceed usize::MAX
overflows(digits) ==
    LET t == strip_zeros(digits)
    IN \/ Len(t) > Len(USIZE_MAX_TEXT)
       \/ Len(t) = Len(USIZE_MAX_TEXT) /\ digits_greater(t, USIZE_MAX_TEXT)

\* str::parse::<usize>: one leading "+" is skipped, a "-" is no digit of an
\* unsigned number; the text is read from the left, and the first character
\* that is no digit or that takes the number over usize::MAX ends it
parse_usize(text) ==
    IF text = <<>> THEN Err("cannot parse integer from empty string")
    ELSE IF text \in {<<"+">>, <<"-">>} THEN Err("invalid digit found in string")
    ELSE LET digits == IF Head(text) = "+" THEN Tail(text) ELSE text
             bad == {k \in 1..Len(digits) :
                        \/ ~IsDigit(digits[k])
                        \/ /\ \A j \in 1..k : IsDigit(digits[j])
                           /\ overflows(SubSeq(digits, 1, k))}
         IN IF bad = {} THEN Ok(parse_digits(digits, 0))
            ELSE IF ~IsDigit(digits[CHOOSE k \in bad : \A j \in bad : k <= j])
                 THEN Err("invalid digit found in string")
                 ELSE Err("number too large to fit in target type")

unwrap_or(result, default) == IF result.ok THEN result.v ELSE default
contains(text, c) == \E k \in 1..Len(text) : text[k] = c

\* PropMessage::Save: does pressing Ok close the dialog
save_accepted(dlg) ==
    /\ ~(contains(dlg.loop_from_input, "-") \/ contains(dlg.loop_to_input, "-"))
    /\ dlg.loop_toggle =>
         unwrap_or(parse_usize(dlg.loop_from_input), 0)
            < unwrap_or(parse_usize(dlg.loop_to_input), 0)

\* configure, after the window has closed: [item, modified]
configure(item, dlg) ==
    IF dlg.apply
    THEN LET new_name == dlg.name_input
             new_extension == dlg.radio
             new_loop == IF dlg.loop_toggle
                         THEN Some(<<unwrap_or(parse_usize(dlg.loop_from_input), 0),
                                     unwrap_or(parse_usize(dlg.loop_to_input), 0)>>)
                         ELSE None
         IN IF item.name = new_name /\ item.extension = new_extension
               /\ loop_points(item) = new_loop
            THEN [item |-> item, modified |-> FALSE]
            ELSE LET cleared == IF item.extension # new_extension
                                   \/ loop_points(item) = new_loop
                                THEN clear_bytes(item)
                                ELSE item
                 IN [item |-> [cleared EXCEPT !.name = new_name,
                                              !.extension = new_extension,
                                              !.loop_points_samples = new_loop],
                     modified |-> TRUE]
    ELSE [item |-> item, modified |-> FALSE]

(***************************************************************************)
(* Inputs: the files the user picks, what the dialogs return, and what the *)
(* file system and the tools do.                                           *)
(***************************************************************************)
\* Files offered to the Replace dialog: [extension, data]
MonoWav == wav_write(1, 48000, 16, <<1, 2>>)
TextFile == <<9, 9, 9, 9>>
IdspFile == IDSP_MAGIC \o <<1>>
LopusFile == <<7, 7, 7, 7, 1>>
ShortFile == <<7>>
ReplaceFiles ==
    {[extension |-> "wav", data |-> MonoWav],
     [extension |-> "txt", data |-> TextFile],
     [extension |-> "idsp", data |-> IdspFile]}

\* What VGAudioCli and vgmstream write when they decode to WAV
ToolWav == wav_write(1, 48000, 16, <<5, 6, 7>>)
ToolWav8 == wav_write(1, 48000, 8, <<5, 6, 7>>)
Garbage == <<0, 0>>
\* What VGAudioCli writes when it encodes to `extension`
Encoded(extension) ==
    IF extension = Idsp THEN {IDSP_MAGIC \o <<2>>}
    ELSE IF extension = Lopus THEN {<<79, 80, 85, 83, 2>>}
    ELSE {}

Run(spawn, code, dest, stdout) ==
    [spawn |-> spawn, code |-> code, dest |-> dest, stdout |-> stdout]
NoRun == Run(FALSE, None, None, <<>>)

\* Runs of VGAudioCli converting to a file with extension `extension`
VgaudioRuns(extension) ==
    {Run(TRUE, Some(1), None, <<>>)}
    \cup {Run(TRUE, Some(0), Some(b), <<>>) :
            b \in IF extension = "wav" THEN {ToolWav, ToolWav8, Garbage}
                  ELSE Encoded(extension)}

\* Runs of vgmstream -p
VgmstreamRuns ==
    {Run(TRUE, Some(1), None, Garbage)}
    \cup {Run(TRUE, Some(0), None, b) : b \in {ToolWav, ToolWav8, Garbage}}

\* Runs of vgmstream -mI
LoopDoc(start, end) == JObject([loopingInfo |-> JObject([start |-> start, end |-> end])])
NoMetadata == Run(FALSE, None, None, [utf8 |-> TRUE, json |-> None])
MetadataRuns ==
    {Run(TRUE, Some(1), None, [utf8 |-> TRUE, json |-> None])}
    \cup {Run(TRUE, Some(0), None,
              [utf8 |-> TRUE, json |-> Some(LoopDoc(JNumber(start), JNumber(end)))]) :
            start \in 0..1, end \in 0..1}

Env(mkdir, write, vgaudio, vgmstream, metadata) ==
    [mkdir |-> mkdir, write |-> write, vgaudio |-> vgaudio,
     vgmstream |-> vgmstream, metadata |-> metadata]

\* The file system fails: create_target_dir, or the fs::write after it
FsFailures ==
    {Env(FALSE, TRUE, NoRun, NoRun, NoMetadata), Env(TRUE, FALSE, NoRun, NoRun, NoMetadata)}

\* Which tool ListItem::decode will start under settings s
decodes_with_vgmstream(s) ==
    IF s.prefer_vgmstream_decode THEN s.vgmstream_path # "" ELSE s.vgaudio_cli_path = ""

\* Does the run of a decoding tool end with bytes handed back
Delivers(run, vgmstream) ==
    /\ run.spawn
    /\ IF vgmstream THEN IsNone(run.code) \/ Unwrap(run.code) = 0
       ELSE run.code = Some(0) /\ IsSome(run.dest)

\* What can happen around one from_encoded under settings s.  A step that
\* is not reached has no outcome to choose: the tool that is not the one
\* decode starts does not run, and the metadata run only follows a decode
\* that handed back bytes.
DecodeEnvs(s) ==
    LET vgm == decodes_with_vgmstream(s)
        runs == IF vgm THEN VgmstreamRuns ELSE VgaudioRuns("wav")
        metadata(run) == IF Delivers(run, vgm) /\ s.vgmstream_path # ""
                         THEN MetadataRuns ELSE {NoMetadata}
    IN FsFailures
       \cup UNION {{Env(TRUE, TRUE, IF vgm THEN NoRun ELSE run, IF vgm THEN run ELSE NoRun, m) :
                        m \in metadata(run)} : run \in runs}

\* What can happen around one get_nus3_encoded_raw to `extension`
EncodeEnvs(extension) ==
    FsFailures \cup {Env(TRUE, TRUE, a, NoRun, NoMetadata) : a \in VgaudioRuns(extension)}

\* Text typed into the loop inputs of the properties dialog
LoopTexts ==
    {<<>>, <<"-", "1">>, <<"+", "1">>} \cup {<<Digits[n + 1]>> : n \in 0..MaxLoopInput}
\* Names typed into the name input of the properties dialog
NameInputs == {<<"a", "b">>}

\* Containers offered to the Open dialog: the file name and the records
\* (name, data) Nus3audioFile::try_from_bytes finds in it.
Records ==
    {[name |-> Name("new_sound_1"), data |-> IdspFile],
     [name |-> Name("new_sound_1"), data |-> LopusFile],
     [name |-> Name("new_sound_1"), data |-> ShortFile]}
RECURSIVE SeqsUpTo(_, _)
SeqsUpTo(S, n) ==
    IF n = 0 THEN {<<>>}
    ELSE LET shorter == SeqsUpTo(S, n - 1)
         IN shorter \cup {Append(q, x) : q \in {r \in shorter : Len(r) = n - 1}, x \in S}
ContainerName == <<"c", "nus3audio">>
Containers == SeqsUpTo(Records, MaxItems)

(***************************************************************************)
(* List                                                                    *)
(***************************************************************************)
\* List::new
List_new == [name |-> EmptyName, path |-> None, items |-> <<>>, modified |-> FALSE]

\* List::remove
remove(list, index) ==
    [list EXCEPT !.items = SubSeq(list.items, 1, index - 1)
                           \o SubSeq(list.items, index + 1, Len(list.items)),
                 !.modified = TRUE]

\* List::clear
clear(list) == [list EXCEPT !.items = <<>>, !.modified = FALSE]

\* List::add_item
add_item(list, item) ==
    [list EXCEPT !.items = Append(list.items, item), !.modified = TRUE]

\* List::replace with the file the dialog returned (None: no file chosen).
\* readable: does fs::read succeed; env: what happens around from_encoded;
\* metadata: the run of vgmstream on the chosen file.  [list, ret]
replace(list, index, chosen, readable, s, env, metadata) ==
    LET list_item == list.items[index] IN
    IF IsNone(chosen) THEN [list |-> list, ret |-> Ok(<<>>)]
    ELSE IF ~readable THEN [list |-> list, ret |-> Err("Could not read file")]
    ELSE
    LET file == Unwrap(chosen)
        raw == file.data
        r == IF file.extension \in {"idsp", "lopus"}
             THEN from_encoded(list_item, list.name, raw, s, env)
             ELSE [item |-> set_audio_raw(list_item, raw), ret |-> Ok(<<>>), cmds |-> <<>>]
    IN
    IF ~r.ret.ok
    THEN [list |-> [list EXCEPT !.items[index] = r.item],
          ret |-> Err("Could not decode file as audio")]
    ELSE LET lp == loop_points_of(<<"", "chosen", file.extension>>, s, metadata)
         IN [list |-> [list EXCEPT !.items[index] =
                                       [r.item EXCEPT !.loop_points_samples = lp.ret],
                                   !.modified = TRUE],
             ret |-> Ok(<<>>)]

\* The loop of save_nus3audio leaving out the items that have no bytes to
\* give
RECURSIVE save_items_skipping_empty(_, _, _, _, _)
save_items_skipping_empty(items, k, name, s, envs) ==
    IF k > Len(items) THEN [items |-> items, records |-> <<>>]
    ELSE LET list_item == items[k]
             r == get_nus3_encoded_raw(list_item, name, list_item.extension, s, envs[k])
             rest == save_items_skipping_empty([items EXCEPT ![k] = r.item], k + 1, name, s, envs)
         IN [items |-> rest.items,
             records |-> IF r.ret.ok
                         THEN <<[id |-> k - 1, name |-> list_item.name, data |-> r.ret.v]>>
                              \o rest.records
                         ELSE rest.records]

\* The loop of List::save_nus3audio over items k..Len(items): [items, records]
RECURSIVE save_items(_, _, _, _, _)
save_items(items, k, name, s, envs) ==
    IF k > Len(items) THEN [items |-> items, records |-> <<>>]
    ELSE LET list_item == items[k]
             r == get_nus3_encoded_raw(list_item, name, list_item.extension, s, envs[k])
             data == IF r.ret.ok THEN r.ret.v ELSE <<>>
             rest == save_items([items EXCEPT ![k] = r.item], k + 1, name, s, envs)
         IN [items |-> rest.items,
             records |-> <<[id |-> k - 1, name |-> list_item.name, data |-> data]>>
                         \o rest.records]

\* save_nus3audio marking the list as unmodified before it writes the file
save_nus3audio_unmodified_first(list, name, s, envs, written) ==
    LET saved == save_items(list.items, 1, name, s, envs) IN
    [list |-> [list EXCEPT !.items = saved.items, !.modified = FALSE],
     ret |-> IF written THEN Ok(<<>>) ELSE Err("write failed"),
     records |-> saved.records]

\* List::save_nus3audio to the file named `name`; written: does fs::write
\* succeed.  [list, ret, records], records the container that was built.
save_nus3audio(list, name, s, envs, written) ==
    LET saved == save_items(list.items, 1, name, s, envs) IN
    [list |-> [list EXCEPT !.items = saved.items,
                           !.modified = IF written THEN FALSE ELSE list.modified],
     ret |-> IF written THEN Ok(<<>>) ELSE Err("write failed"),
     records |-> saved.records]

\* The loop of Message::Open ending at the first record that from_encoded
\* rejects
RECURSIVE open_records_stopping_on_error(_, _, _, _, _)
open_records_stopping_on_error(list, records, k, s, envs) ==
    IF k > Len(records) THEN list
    ELSE LET file == records[k]
             new == ListItem_new(file.name)
             extension == extension_of_encoded(file.data)
             item == IF extension.ok THEN [new EXCEPT !.extension = extension.v] ELSE new
             r == from_encoded(item, list.name, file.data, s, envs[k])
         IN IF r.ret.ok
            THEN open_records_stopping_on_error(add_item(list, r.item), records, k + 1, s, envs)
            ELSE list

\* The loop of Message::Open over records k..Len(records): the list
RECURSIVE open_records(_, _, _, _, _)
open_records(list, records, k, s, envs) ==
    IF k > Len(records) THEN list
    ELSE LET file == records[k]
             new == ListItem_new(file.name)
             extension == extension_of_encoded(file.data)
             item == IF extension.ok THEN [new EXCEPT !.extension = extension.v] ELSE new
             r == from_encoded(item, list.name, file.data, s, envs[k])
         IN open_records(add_item(list, r.item), records, k + 1, s, envs)

(***************************************************************************)
(* Playback (playback.rs).  The handle of a sound is [state, sound, loops]: *)
(* the PlaybackState of kira, the WAV the sound was made of, and whether   *)
(* it has a loop region.  audio_manager is TRUE when the manager could be  *)
(* created.  The slider is not modelled.  A call returns [playback, ret,   *)
(* cmds], cmds being the commands sent to kira.                            *)
(***************************************************************************)
PLAY == "@>"
PAUSE == "@||"
PlaybackState == {"Playing", "Pausing", "Paused", "Stopping", "Stopped"}

\* Playback::new; created: could the audio manager be created
Playback_new(created) ==
    [playing               |-> FALSE,
     label                 |-> PLAY,
     audio_manager         |-> created,
     playing_handle        |-> None,
     loop_points_samples   |-> None,
     current_playing_index |-> None]

\* StaticSoundHandle::pause, resume and stop: what the state becomes
handle_pause(handle) ==
    IF handle.state \in {"Playing"} THEN [handle EXCEPT !.state = "Pausing"] ELSE handle
handle_resume(handle) ==
    IF handle.state \in {"Pausing", "Paused"} THEN [handle EXCEPT !.state = "Playing"]
    ELSE handle
handle_stop(handle) ==
    IF handle.state # "Stopped" THEN [handle EXCEPT !.state = "Stopping"] ELSE handle

\* The audio thread of kira, which runs next to the program: a sound that
\* is pausing becomes paused, one that is stopping becomes stopped, and one
\* that plays without a loop region comes to its end
audio_thread(handle) ==
    IF handle.state \in {"Pausing", "Stopping"} \/ (handle.state = "Playing" /\ ~handle.loops)
    THEN [handle EXCEPT !.state = IF handle.state = "Pausing" THEN "Paused" ELSE "Stopped"]
    ELSE handle

\* Playback::get_manager; created: could the audio manager be created now
get_manager(pb, created) ==
    IF pb.audio_manager THEN pb ELSE [pb EXCEPT !.audio_manager = created]

\* Playback::on_update
on_update(pb) ==
    IF pb.playing
    THEN IF IsSome(pb.playing_handle)
         THEN IF Unwrap(pb.playing_handle).state # "Playing"
              THEN [pb EXCEPT !.playing = FALSE, !.label = PLAY]
              ELSE pb
         ELSE [pb EXCEPT !.playing = FALSE, !.label = PLAY]
    ELSE pb

\* Playback::on_seek and Playback::seek.  The results of seek_to and of
\* resume are dropped; resumed: did kira take the resume command
on_seek(pb, resumed) ==
    IF pb.playing /\ IsSome(pb.playing_handle) /\ resumed
    THEN [pb EXCEPT !.playing_handle = Some(handle_resume(Unwrap(pb.playing_handle)))]
    ELSE pb

\* Playback::stop_sink
stop_sink(pb) ==
    [pb EXCEPT !.label = PLAY,
               !.playing = FALSE,
               !.loop_points_samples = None,
               !.playing_handle = None]

\* Playback::on_press.  selected is the index file_list.selected() returns;
\* env tells whether the audio manager can be created, whether a command to
\* the handle is accepted, whether the WAV can be read as a sound and
\* whether the manager plays it.  handle.state() is read twice, in the
\* guard and in the branch: env.advances tells whether the audio thread
\* takes a step between the two reads.
on_press(pb0, list, selected, env) ==
    LET pb1 == get_manager(pb0, env.manager)
        done(p, result, cmds) == [playback |-> p, ret |-> result, cmds |-> cmds]
    IN
    IF ~pb1.audio_manager THEN done(pb1, Err("no audio device"), <<>>)
    ELSE IF /\ IsSome(pb1.playing_handle)
            /\ Unwrap(pb1.playing_handle).state # "Stopped"
            /\ (IsNone(selected) \/ selected = pb1.current_playing_index)
    THEN LET handle == IF env.advances THEN audio_thread(Unwrap(pb1.playing_handle))
                       ELSE Unwrap(pb1.playing_handle)
             pb == [pb1 EXCEPT !.playing_handle = Some(handle)]
         IN
         IF handle.state = "Paused"
         THEN LET resumed == [pb EXCEPT !.label = PAUSE, !.playing = TRUE] IN
              IF ~env.command THEN done(resumed, Err("command queue full"), <<>>)
              ELSE done([resumed EXCEPT !.playing_handle = Some(handle_resume(handle))],
                        Ok(<<>>), <<"resume">>)
         ELSE LET paused == [pb EXCEPT !.label = PLAY] IN
              IF ~env.command THEN done(paused, Err("command queue full"), <<>>)
              ELSE done([paused EXCEPT !.playing_handle = Some(handle_pause(handle))],
                        Ok(<<>>), <<"pause">>)
    ELSE LET stopped == IF IsSome(pb1.playing_handle) /\ env.command
                        THEN [pb1 EXCEPT !.playing_handle =
                                            Some(handle_stop(Unwrap(pb1.playing_handle)))]
                        ELSE pb1
             cmds == IF IsSome(pb1.playing_handle) /\ env.command THEN <<"stop">> ELSE <<>>
         IN
         IF IsNone(selected) THEN done(stopped, Err("Nothing is selected."), cmds)
         ELSE
         LET list_item == list.items[Unwrap(selected) + 1] IN
         IF list_item.extension = Bin
         THEN done(stopped, Err("File is not audio or could not be read as audio."), cmds)
         ELSE
         LET looped == [stopped EXCEPT !.loop_points_samples = list_item.loop_points_samples]
             wav == get_audio_wav(list_item, loop_end(list_item))
         IN
         IF ~wav.ok THEN done(looped, wav, cmds)
         ELSE IF ~env.sound THEN done(looped, Err("Could not play audio"), cmds)
         ELSE
         LET started == [looped EXCEPT !.label = PAUSE, !.playing = TRUE] IN
         IF ~env.play THEN done(started, Err("sound limit reached"), cmds)
         ELSE done([started EXCEPT
                       !.playing_handle =
                           Some([state |-> "Playing", sound |-> wav.v,
                                 loops |-> IsSome(looped.loop_points_samples)]),
                       !.current_playing_index = selected],
                   Ok(<<>>), Append(cmds, "play"))

(***************************************************************************)
(* The state after start-up, and the handlers of the main event loop.      *)
(***************************************************************************)
\* The defaults of the settings.  on_path holds the programs which() finds
\* on the PATH.
VGAUDIO_CLI_PATH_DEFAULT == "./VGAudioCli/VGAudioCli.exe"
VGMSTREAM_PATH_DEFAULT == "./vgmstream/vgmstream-cli"
PREFER_VGMSTREAM_DECODE_DEFAULT == TRUE
VGAUDIO_CLI_PREPATH_DEFAULT(on_path) ==
    IF "mono" \in on_path THEN "mono"
    ELSE IF "dotnet" \in on_path THEN "dotnet"
    ELSE "wine"

\* The map of a settings file gives each key a value or none; a value is a
\* string, a boolean or a number
SettingsKeys ==
    {"vgaudio_cli_path", "vgaudio_cli_prepath", "vgmstream_path", "first_time",
     "prefer_vgmstream_for_decode"}
TomlString(v) == [type |-> "String", s |-> v]
TomlBoolean(v) == [type |-> "Boolean", b |-> v]
TomlInteger(v) == [type |-> "Integer", i |-> v]
EmptyMap == [key \in SettingsKeys |-> None]

\* What the getters of the paths return: the string of the map, and the
\* default when the map has no string there
string_or(map, key, default) ==
    IF IsSome(map[key]) /\ Unwrap(map[key]).type = "String"
    THEN Unwrap(map[key]).s
    ELSE default

\* Settings::from_default.  The settings are what the getters return, and
\* the keys whose value in the map is no string (configure_value leaves
\* those alone).
from_default(map, on_path) ==
    [vgaudio_cli_path |-> string_or(map, "vgaudio_cli_path", VGAUDIO_CLI_PATH_DEFAULT),
     vgaudio_cli_prepath |-> string_or(map, "vgaudio_cli_prepath",
                                       VGAUDIO_CLI_PREPATH_DEFAULT(on_path)),
     vgmstream_path |-> string_or(map, "vgmstream_path", VGMSTREAM_PATH_DEFAULT),
     prefer_vgmstream_decode |->
         IF IsSome(map["prefer_vgmstream_for_decode"])
            /\ Unwrap(map["prefer_vgmstream_for_decode"]).type = "Boolean"
         THEN Unwrap(map["prefer_vgmstream_for_decode"]).b
         ELSE PREFER_VGMSTREAM_DECODE_DEFAULT,
     not_strings |-> {key \in {"vgaudio_cli_path", "vgaudio_cli_prepath", "vgmstream_path"} :
                        IsSome(map[key]) /\ Unwrap(map[key]).type # "String"}]

\* Settings::new: the defaults
Settings_new(on_path) == from_default(EmptyMap, on_path)

\* Settings::new_default: file is the map read from settings.toml, None
\* when the file is missing or cannot be parsed
new_default(file, on_path) ==
    IF IsSome(file) THEN from_default(Unwrap(file), on_path) ELSE Settings_new(on_path)

\* What which() can find
OnPaths == {{"mono"}, {"dotnet"}, {}}
\* A settings file that turns the preference for vgmstream off and holds
\* numbers where the paths are expected
PreferVgaudioFile ==
    [EmptyMap EXCEPT !["prefer_vgmstream_for_decode"] = Some(TomlBoolean(FALSE)),
                     !["vgaudio_cli_path"] = Some(TomlInteger(1)),
                     !["vgaudio_cli_prepath"] = Some(TomlInteger(1)),
                     !["vgmstream_path"] = Some(TomlInteger(1))]
\* A settings file written by the program after the paths were typed in
TypedPathsFile ==
    [EmptyMap EXCEPT !["vgaudio_cli_prepath"] = Some(TomlString("wine")),
                     !["vgmstream_path"] = Some(TomlString("/opt/vgm")),
                     !["first_time"] = Some(TomlBoolean(FALSE))]
SettingsFiles == {None, Some(PreferVgaudioFile), Some(TypedPathsFile)}
\* The settings on a machine with mono and no settings file
DefaultSettings == Settings_new({"mono"})
\* The machines the program is started on: one with mono and no settings
\* file, one with neither mono nor dotnet and PreferVgaudioFile
StartUps == {[file |-> None, on_path |-> {"mono"}],
             [file |-> Some(PreferVgaudioFile), on_path |-> {}]}

Init ==
    /\ file_list = List_new
    /\ \E machine \in StartUps : settings = new_default(machine.file, machine.on_path)
    /\ fn_args = None
    /\ fn_ret = None
    /\ \E created \in BOOLEAN : playback = Playback_new(created)

\* The selection of the list widget: 0 when nothing is selected
Selections == 0..Len(file_list.items)

\* The alert "Nothing is selected."
NothingSelected == UNCHANGED vars

\* Message::New
New ==
    /\ file_list' = clear(file_list)
    /\ UNCHANGED <<settings, fn_args, fn_ret, playback>>

\* Message::Open.  The dialog returns a container or nothing; the file may
\* be unreadable or no nus3audio file.
Open ==
    \/ UNCHANGED vars
    \/ \E records \in Containers :
       \E envs \in [1..Len(records) -> DecodeEnvs(settings)] :
            /\ file_list' = open_records([clear(file_list) EXCEPT
                                             !.name = ContainerName,
                                             !.path = Some(ContainerName)],
                                         records, 1, settings, envs)
            /\ playback' = stop_sink(playback)
            /\ UNCHANGED <<settings, fn_args, fn_ret>>

\* Message::ExportSingle.  target is the extension of the file the save
\* dialog returned ("": the dialog was cancelled).
ExportTargets == {"", "wav", "idsp", "lopus", "bin"}

ExportSingle ==
    \E index \in Selections, target \in ExportTargets :
        IF index = 0 THEN NothingSelected
        ELSE IF target \in {"", "wav"}
        THEN UNCHANGED vars
        ELSE \E env \in EncodeEnvs(target) :
             \E r \in {get_nus3_encoded_raw(file_list.items[index], file_list.name, target,
                                            settings, env)} :
                /\ file_list' = [file_list EXCEPT !.items[index] = r.item]
                /\ UNCHANGED <<settings, fn_args, fn_ret, playback>>

\* Message::ExportAll: get_audio_wav of every item, which changes none
ExportAll ==
    /\ \A k \in 1..Len(file_list.items) :
          get_audio_wav(file_list.items[k], None).ok \in BOOLEAN
    /\ UNCHANGED vars

\* Message::Add
Add ==
    /\ Len(file_list.items) < MaxItems
    /\ file_list' = add_item(file_list,
                             ListItem_new(Name("new_sound_" \o ToString(Len(file_list.items) + 1))))
    /\ UNCHANGED <<settings, fn_args, fn_ret, playback>>

\* Message::Remove
Remove ==
    \E index \in Selections :
        IF index = 0 THEN NothingSelected
        ELSE /\ file_list' = remove(file_list, index)
             /\ UNCHANGED <<settings, fn_args, fn_ret, playback>>

\* usize::to_string
RECURSIVE to_string(_)
to_string(n) ==
    IF n < 10 THEN <<Digits[n + 1]>>
    ELSE Append(to_string(n \div 10), Digits[(n % 10) + 1])

\* The dialogs configure can close with for `item` (apply is FALSE when the
\* window was closed without an accepted Ok).  The inputs start from the
\* item's values and the user may retype them; checking the loop check box
\* of an item without loop points fills the loop inputs with 0 and the
\* item's length.  The loop inputs are read for their numbers only when the
\* loop check box is checked, and are left as they started otherwise.
\* A click on the "Binary data" radio unchecks the loop check box and
\* deactivates it, so the box is checked with that radio on only when the
\* dialog opened with the radio on (the item is binary data) and the radios
\* were not touched; the box is as free as for any item then.
Dialogs(item, apply) ==
    LET lp == loop_points(item)
        from0 == IF IsSome(lp) THEN to_string(Unwrap(lp)[1]) ELSE <<>>
        to0 == IF IsSome(lp) THEN to_string(Unwrap(lp)[2]) ELSE <<>>
    IN {dlg \in [apply : {apply},
                 name_input : {item.name} \cup NameInputs,
                 radio : AudioExtension,
                 loop_toggle : BOOLEAN,
                 loop_from_input : {from0, <<"0">>} \cup LoopTexts,
                 loop_to_input : {to0, to_string(item.length_in_samples)} \cup LoopTexts] :
          /\ dlg.apply => save_accepted(dlg)
          /\ ~dlg.loop_toggle => (dlg.loop_from_input = from0 /\ dlg.loop_to_input = to0)
          /\ (dlg.radio = Bin /\ dlg.loop_toggle) => item.extension = Bin}

\* Message::Properties
Properties ==
    \E index \in Selections :
        IF index = 0 THEN NothingSelected
        ELSE \E dlg \in Dialogs(file_list.items[index], TRUE)
                        \cup {CHOOSE d \in Dialogs(file_list.items[index], FALSE) : TRUE} :
             \E c \in {configure(file_list.items[index], dlg)} :
                /\ file_list' = [file_list EXCEPT
                                    !.items[index] = c.item,
                                    !.modified = IF c.modified THEN TRUE ELSE @]
                /\ playback' = on_update(playback)
                /\ UNCHANGED <<settings, fn_args, fn_ret>>

\* Message::Replace
Replace ==
    \E index \in Selections :
        IF index = 0 THEN NothingSelected
        ELSE \E chosen \in {None} \cup {Some(f) : f \in ReplaceFiles}, readable \in BOOLEAN :
             \E env \in IF IsSome(chosen) /\ readable
                           /\ Unwrap(chosen).extension \in {"idsp", "lopus"}
                        THEN DecodeEnvs(settings)
                        ELSE {Env(TRUE, TRUE, NoRun, NoRun, NoMetadata)} :
             \E reached \in {replace(file_list, index, chosen, readable, settings, env,
                                      NoMetadata)} :
             \E metadata \in IF settings.vgmstream_path # "" /\ IsSome(chosen) /\ readable
                                /\ reached.ret.ok
                             THEN MetadataRuns ELSE {NoMetadata} :
                /\ file_list' = replace(file_list, index, chosen, readable, settings, env,
                                        metadata).list
                /\ UNCHANGED <<settings, fn_args, fn_ret, playback>>

\* What can happen around the encoding of each item of a save
SaveEnvs(items) ==
    {envs \in [1..Len(items) -> UNION {EncodeEnvs(e) : e \in AudioExtension}] :
        \A k \in 1..Len(items) : envs[k] \in EncodeEnvs(items[k].extension)}

\* Message::Save: with no path the handler sends Message::SaveAs
Save ==
    IF IsSome(file_list.path)
    THEN \E envs \in SaveEnvs(file_list.items), written \in BOOLEAN :
            /\ file_list' = save_nus3audio(file_list, Unwrap(file_list.path), settings,
                                           envs, written).list
            /\ UNCHANGED <<settings, fn_args, fn_ret, playback>>
    ELSE UNCHANGED vars

\* Message::SaveAs.  The dialog returns a file name or nothing.
SaveAsName == <<"s", "nus3audio">>

SaveAs ==
    \/ UNCHANGED vars
    \/ \E envs \in SaveEnvs(file_list.items), written \in BOOLEAN :
            /\ file_list' = save_nus3audio(file_list, SaveAsName, settings, envs, written).list
            /\ UNCHANGED <<settings, fn_args, fn_ret, playback>>

\* Settings::configure_value with what the input dialog returned (None: the
\* dialog was cancelled).  For a value that is no string there is an alert
\* and no dialog.
configure_value(s, key, input) ==
    IF key \in s.not_strings THEN s
    ELSE IF IsSome(input) THEN [s EXCEPT ![key] = Unwrap(input)] ELSE s

\* Values typed into the path dialogs of the settings
PathInputs(default) == {None, Some(""), Some(default)}

\* Message::ConfigureVGAudioCliPath
ConfigureVGAudioCliPath ==
    \E new_value \in PathInputs(DefaultSettings.vgaudio_cli_path) :
        /\ settings' = configure_value(settings, "vgaudio_cli_path", new_value)
        /\ UNCHANGED <<file_list, fn_args, fn_ret, playback>>

\* Message::ConfigureRuntimePath
ConfigureRuntimePath ==
    \E new_value \in PathInputs(DefaultSettings.vgaudio_cli_prepath) :
        /\ settings' = configure_value(settings, "vgaudio_cli_prepath", new_value)
        /\ UNCHANGED <<file_list, fn_args, fn_ret, playback>>

\* Message::ConfigureVgmstreamPath
ConfigureVgmstreamPath ==
    \E new_value \in PathInputs(DefaultSettings.vgmstream_path) :
        /\ settings' = configure_value(settings, "vgmstream_path", new_value)
        /\ UNCHANGED <<file_list, fn_args, fn_ret, playback>>

Next ==
    \/ New
    \/ Open
    \/ ExportSingle
    \/ ExportAll
    \/ Add
    \/ Remove
    \/ Properties
    \/ Replace
    \/ Save
    \/ SaveAs
    \/ ConfigureVGAudioCliPath
    \/ ConfigureRuntimePath
    \/ ConfigureVgmstreamPath

Spec == Init /\ [][Next]_vars

(***************************************************************************)
(* The event loop with the messages of the playback, next to the handlers  *)
(* that put items into the list and take them out of it.                   *)
(***************************************************************************)
\* What can happen around one press of the play button
PressEnvs ==
    [manager : BOOLEAN, command : BOOLEAN, sound : BOOLEAN, play : BOOLEAN,
     advances : BOOLEAN]

\* The index file_list.selected() returns for a selection of the widget
selected_index(index) == IF index = 0 THEN None ELSE Some(index - 1)

\* Message::PlayPause
PlayPause ==
    \E index \in Selections, env \in PressEnvs :
        /\ playback' = on_press(playback, file_list, selected_index(index), env).playback
        /\ UNCHANGED <<file_list, settings, fn_args, fn_ret>>

\* Message::Stop
Stop ==
    /\ playback' = stop_sink(playback)
    /\ UNCHANGED <<file_list, settings, fn_args, fn_ret>>

\* Message::Update
Update ==
    /\ playback' = on_update(playback)
    /\ UNCHANGED <<file_list, settings, fn_args, fn_ret>>

\* Message::Seek
Seek ==
    /\ \E resumed \in BOOLEAN : playback' = on_seek(playback, resumed)
    /\ UNCHANGED <<file_list, settings, fn_args, fn_ret>>

\* A step of the audio thread of kira between two messages
SoundAdvances ==
    /\ IsSome(playback.playing_handle)
    /\ \E handle \in {Unwrap(playback.playing_handle)} :
          /\ audio_thread(handle) # handle
          /\ playback' = [playback EXCEPT !.playing_handle = Some(audio_thread(handle))]
    /\ UNCHANGED <<file_list, settings, fn_args, fn_ret>>

PlayerNext ==
    \/ Open
    \/ Add
    \/ Remove
    \/ Replace
    \/ PlayPause
    \/ Stop
    \/ Update
    \/ Seek
    \/ SoundAdvances

Player == Init /\ [][PlayerNext]_vars

(***************************************************************************)
(* The cache directory.  A file system gives each path of FsPaths its kind: *)
(* absent, file or dir.                                                    *)
(***************************************************************************)
IsPrefix(p, q) == Len(p) <= Len(q) /\ SubSeq(q, 1, Len(p)) = p
Parent(p) == SubSeq(p, 1, Len(p) - 1)

FsPaths ==
    {CACHEDIR,
     <<Name("cache"), ContainerName>>,
     <<Name("cache"), ContainerName, Name("f")>>,
     <<Name("cache"), ContainerName, Name("sub")>>,
     <<Name("cache"), ContainerName, Name("sub"), Name("g")>>,
     <<Name("cache"), SaveAsName>>,
     <<Name("cache"), SaveAsName, Name("x")>>}

\* The file systems the program can find: the cache directory exists, and
\* what exists lies in a directory
FileSystems ==
    {fs \in [FsPaths -> {"absent", "file", "dir"}] :
        /\ fs[CACHEDIR] = "dir"
        /\ \A p \in FsPaths \ {CACHEDIR} : fs[p] # "absent" => fs[Parent(p)] = "dir"}

\* Path::exists, Path::is_dir, Path::read_dir
exists(fs, p) == fs[p] # "absent"
is_dir(fs, p) == fs[p] = "dir"
read_dir(fs, p) == {q \in DOMAIN fs : Parent(q) = p /\ fs[q] # "absent"}

\* The order in which read_dir gives the entries of a directory is the file
\* system's own.  An order lists the paths; the entries of a directory come
\* in the order of the list.
ReadDirOrder(container_first, f_first) ==
    LET c == <<Name("cache"), ContainerName>>
        s == <<Name("cache"), SaveAsName>>
    IN <<CACHEDIR>>
       \o (IF container_first THEN <<c, s>> ELSE <<s, c>>)
       \o (IF f_first THEN <<Append(c, Name("f")), Append(c, Name("sub"))>>
                      ELSE <<Append(c, Name("sub")), Append(c, Name("f"))>>)
       \o <<c \o <<Name("sub"), Name("g")>>, Append(s, Name("x"))>>
ReadDirOrders == {ReadDirOrder(container_first, f_first) :
                     container_first \in BOOLEAN, f_first \in BOOLEAN}
read_dir_ordered(fs, p, order) ==
    LET IsEntry(q) == q \in read_dir(fs, p) IN SelectSeq(order, IsEntry)

\* The state of a run of file operations: the file system, the paths
\* removed so far and the result so far
FsRun(fs, removed, result) == [fs |-> fs, removed |-> removed, ret |-> result]

\* `denied` holds the paths the program may not change: a denied path can
\* be neither removed nor created, and nothing can be removed from or
\* created in a denied directory.
permitted(p, denied) == p \notin denied /\ Parent(p) \notin denied

\* fs::remove_file, fs::remove_dir, fs::create_dir after the run t; an
\* operation after a failed one is not reached
remove_file(t, p, denied) ==
    IF ~t.ret.ok THEN t
    ELSE IF ~permitted(p, denied) THEN [t EXCEPT !.ret = Err("Permission denied")]
    ELSE IF t.fs[p] # "file" THEN [t EXCEPT !.ret = Err("No such file")]
    ELSE FsRun([t.fs EXCEPT ![p] = "absent"], t.removed \cup {p}, t.ret)

remove_dir(t, p, denied) ==
    IF ~t.ret.ok THEN t
    ELSE IF ~permitted(p, denied) THEN [t EXCEPT !.ret = Err("Permission denied")]
    ELSE IF read_dir(t.fs, p) # {} THEN [t EXCEPT !.ret = Err("Directory not empty")]
    ELSE FsRun([t.fs EXCEPT ![p] = "absent"], t.removed \cup {p}, t.ret)

create_dir(t, p, denied) ==
    IF ~t.ret.ok THEN t
    ELSE IF ~permitted(p, denied) THEN [t EXCEPT !.ret = Err("Permission denied")]
    ELSE IF exists(t.fs, p) THEN [t EXCEPT !.ret = Err("File exists")]
    ELSE IF ~is_dir(t.fs, Parent(p)) THEN [t EXCEPT !.ret = Err("No such file or directory")]
    ELSE FsRun([t.fs EXCEPT ![p] = "dir"], t.removed, t.ret)

\* fs::remove_dir_all: what the directory holds is removed entry by entry,
\* directories before what holds them, and the directory last; the first
\* operation that fails ends it, and what was removed before stays removed
RECURSIVE remove_dir_all(_, _, _, _)
RECURSIVE remove_entries(_, _, _, _)
remove_entries(t, entries, denied, order) ==
    IF entries = <<>> \/ ~t.ret.ok THEN t
    ELSE LET item_path == Head(entries)
             after == IF is_dir(t.fs, item_path)
                      THEN remove_dir_all(t, item_path, denied, order)
                      ELSE remove_file(t, item_path, denied)
         IN remove_entries(after, Tail(entries), denied, order)

remove_dir_all(t, p, denied, order) ==
    IF ~t.ret.ok THEN t
    ELSE IF ~is_dir(t.fs, p) THEN [t EXCEPT !.ret = Err("Not a directory")]
    ELSE remove_dir(remove_entries(t, read_dir_ordered(t.fs, p, order), denied, order),
                    p, denied)

\* The loop of create_target_dir over the entries read_dir returned
remove_contents(t, contents, denied, order) == remove_entries(t, contents, denied, order)

\* create_target_dir removing the directory itself with all it holds
create_target_dir_removing_it(fs, dir, denied, order) ==
    LET t == FsRun(fs, {}, Ok(<<>>)) IN
    IF exists(fs, dir)
    THEN IF is_dir(fs, dir)
         THEN create_dir(remove_dir_all(t, dir, denied, order), dir, denied)
         ELSE create_dir(remove_file(t, dir, denied), dir, denied)
    ELSE create_dir(t, dir, denied)

\* ListItem::create_target_dir: [fs, removed, ret].  The first operation
\* that fails ends it with its error.
create_target_dir(fs, dir, denied, order) ==
    LET t == FsRun(fs, {}, Ok(<<>>)) IN
    IF exists(fs, dir)
    THEN IF is_dir(fs, dir)
         THEN remove_contents(t, read_dir_ordered(fs, dir, order), denied, order)
         ELSE create_dir(remove_file(t, dir, denied), dir, denied)
    ELSE create_dir(t, dir, denied)

(***************************************************************************)
(* The reset of the cache directory (Settings::reset_cache) at start-up    *)
(* and when quitting.  CACHEDIR lies in the cache directory of the user,   *)
(* CacheBase, which is the parent of CACHEDIR.  `denied` holds the paths   *)
(* the program may not change, `order` is the order in which read_dir      *)
(* gives the entries of the directories.                                   *)
(***************************************************************************)
CacheBase == Parent(CACHEDIR)
ResetPaths == FsPaths \cup {CacheBase}

\* The file systems reset_cache can find: CACHEDIR is absent, a file or a
\* directory, and the cache directory of the user may be missing
ResetFileSystems ==
    {fs \in [ResetPaths -> {"absent", "file", "dir"}] :
        /\ fs[CacheBase] # "file"
        /\ \A p \in FsPaths : fs[p] # "absent" => fs[Parent(p)] = "dir"}

\* The loop of reset_cache over the entries read_dir returned
reset_cache_contents(t, contents, denied, order) ==
    remove_entries(t, contents, denied, order)

\* reset_cache leaving a cache directory that exists as it is
reset_cache_keeping_dir(fs, denied, order) ==
    LET t == FsRun(fs, {}, Ok(<<>>)) IN
    IF exists(fs, CACHEDIR)
    THEN IF is_dir(fs, CACHEDIR)
         THEN t
         ELSE create_dir(remove_file(t, CACHEDIR, denied), CACHEDIR, denied)
    ELSE create_dir(t, CACHEDIR, denied)

\* Settings::reset_cache: [fs, removed, ret]
reset_cache(fs, denied, order) ==
    LET t == FsRun(fs, {}, Ok(<<>>))
        gone == IF exists(fs, CACHEDIR)
                THEN IF is_dir(fs, CACHEDIR)
                     THEN remove_dir_all(
                              reset_cache_contents(t, read_dir_ordered(fs, CACHEDIR, order),
                                                   denied, order),
                              CACHEDIR, denied, order)
                     ELSE remove_file(t, CACHEDIR, denied)
                ELSE t
    IN create_dir(gone, CACHEDIR, denied)

\* main from the reset of the cache to the event loop: [exit, running, reset,
\* fs].  exit is the code std::process::exit was called with, running tells
\* whether the event loop handles messages after this.
start_up(fs, denied, order) ==
    LET t == reset_cache(fs, denied, order) IN
    IF ~t.ret.ok
    THEN [exit |-> Some(1), running |-> FALSE, reset |-> Some(t.ret), fs |-> t.fs]
    ELSE [exit |-> None, running |-> TRUE, reset |-> Some(t.ret), fs |-> t.fs]

\* Message::Quit(code) without the question about unsaved changes
quit_without_asking(modified, choice, code, fs, denied, order) ==
    LET t == reset_cache(fs, denied, order) IN
    IF ~t.ret.ok
    THEN [asked |-> FALSE, exit |-> Some(1), running |-> FALSE, reset |-> Some(t.ret), fs |-> t.fs]
    ELSE [asked |-> FALSE, exit |-> Some(code), running |-> FALSE, reset |-> Some(t.ret), fs |-> t.fs]

\* Message::Quit(code): choice is the button pressed in the dialog that is
\* shown when the list has unsaved changes (0 is "Quit"), asked tells
\* whether it was shown
quit(modified, choice, code, fs, denied, order) ==
    LET response == IF modified THEN choice = Some(0) ELSE TRUE IN
    IF response
    THEN LET t == reset_cache(fs, denied, order) IN
         IF ~t.ret.ok
         THEN [asked |-> modified, exit |-> Some(1), running |-> FALSE, reset |-> Some(t.ret), fs |-> t.fs]
         ELSE [asked |-> modified, exit |-> Some(code), running |-> FALSE, reset |-> Some(t.ret), fs |-> t.fs]
    ELSE [asked |-> modified, exit |-> None, running |-> TRUE, reset |-> None, fs |-> fs]

(***************************************************************************)
(* codec.rs: EncodedFile.  A file is [bytes, encoding, channels,           *)
(* sample_rate], the last two filled in by rodio_decode.  A call ends with *)
(* a result or with a panic: [file, panic, ret], ret an Option.            *)
(***************************************************************************)
EncodingType_Bin == "Bin"
EncodingType_WAV == "WAV"
EncodingType == {"Ogg", "FLAC", EncodingType_WAV, "MP3", EncodingType_Bin}

\* EncodedFile::from_bytes_with_encoding
from_bytes_with_encoding(bytes, encoding) ==
    [bytes |-> bytes, encoding |-> encoding, channels |-> None, sample_rate |-> None]

Returned(file, result) == [file |-> file, panic |-> FALSE, ret |-> Some(result)]
Panicked(file) == [file |-> file, panic |-> TRUE, ret |-> None]

\* EncodedFile::rodio_decode
rodio_decode(file) ==
    LET decoder == rodio_Decoder_new(file.bytes) IN
    IF ~decoder.ok
    THEN Returned(file, Err("RodioDecoder"))
    ELSE Returned([file EXCEPT !.channels = Some(decoder.v.channels),
                               !.sample_rate = Some(decoder.v.sample_rate)],
                  Ok(decoder.v.samples))

\* EncodedFile::to_wav
to_wav(file, end) ==
    IF file.encoding = EncodingType_Bin
    THEN Returned(file, Err("DecodeBin"))
    ELSE LET decoded == rodio_decode(file) IN
         IF ~Unwrap(decoded.ret).ok
         THEN decoded
         ELSE LET raw == Unwrap(decoded.ret).v
                  channels == Unwrap(decoded.file.channels)
                  n == IF IsSome(end)
                       THEN LET sample_length == Unwrap(end) * channels
                            IN IF Len(raw) < sample_length THEN Len(raw) ELSE sample_length
                       ELSE Len(raw)
              IN Returned(decoded.file,
                          Ok(wav_write(channels, Unwrap(decoded.file.sample_rate), 16,
                                       SubSeq(raw, 1, n))))

\* encode handing back the bytes of any file that is asked for as Bin
encode_any_as_bin(file, encoding) ==
    IF encoding = EncodingType_Bin
    THEN Returned(file, Ok(file.bytes))
    ELSE IF encoding = EncodingType_WAV
    THEN LET wav == to_wav(file, None) IN
         IF Unwrap(wav.ret).ok
         THEN wav
         ELSE Returned(wav.file, Err("DecodeError: " \o Unwrap(wav.ret).e))
    ELSE Panicked(file)

\* EncodedFile::encode; every encoding but Bin and WAV is todo!()
encode(file, encoding) ==
    IF encoding = EncodingType_Bin
    THEN IF encoding = file.encoding
         THEN Returned(file, Ok(file.bytes))
         ELSE Returned(file, Err("EncodeBin"))
    ELSE IF encoding = EncodingType_WAV
    THEN LET wav == to_wav(file, None) IN
         IF Unwrap(wav.ret).ok
         THEN wav
         ELSE Returned(wav.file, Err("DecodeError: " \o Unwrap(wav.ret).e))
    ELSE Panicked(file)

(***************************************************************************)
(* The functions of list.rs called on their own, each on inputs of its     *)
(* own: fn_args holds the function and its arguments, fn_ret what it       *)
(* returned.                                                               *)
(***************************************************************************)
\* Sample rates of decoded files, around every threshold of the selection
SourceRates ==
    {0, 1, 7999, 8000, 8001, 11025, 11999, 12000, 12001, 15999, 16000, 16001,
     22050, 23999, 24000, 24001, 32000, 44100, 47999, 48000, 48001, 96000}

\* Audio files handed to set_audio_raw: interleaved 16-bit samples
SourceChannels == {1, 2, 6}
SourceWavs ==
    {wav_write(channels, rate, 16, <<1, 2, 3, 4, 5, 6>>) :
        channels \in SourceChannels, rate \in SourceRates \ {0}}
StereoWav44100 == wav_write(2, 44100, 16, <<1, 2, 3, 4, 5, 6>>)

\* Items set_audio_raw is called on: a new one, and one that holds audio,
\* bytes and loop points
SourceItems ==
    {ListItem_new(Name("a")),
     [set_audio_raw(ListItem_new(Name("a")), MonoWav) EXCEPT
         !.bytes_raw = Some(IdspFile), !.loop_points_samples = Some(<<0, 1>>)]}

\* Byte buffers handed to extension_of_encoded: the bytes of "IDSP" and 0
EncodedBytes == {73, 68, 83, 80, 0}
EncodedInputs == SeqsUpTo(EncodedBytes, MaxEncodedLen)

SampleRateArgs == {[fn |-> "sample_rate", decoder_sample_rate |-> r] : r \in SourceRates}
SetAudioRawArgs ==
    {[fn |-> "set_audio_raw", item |-> item, raw |-> raw] :
        item \in SourceItems, raw \in SourceWavs \cup {TextFile}}
ExtensionOfEncodedArgs ==
    {[fn |-> "extension_of_encoded", encoded |-> encoded] : encoded \in EncodedInputs}

\* What the program may not change: nothing, or one of the paths
DeniedPaths == {{}} \cup {{p} : p \in FsPaths}

\* create_target_dir is called twice in a row: start is the file system
\* before the first call, fs the one the last call left, calls their number
CreateTargetDirArgs ==
    {[fn |-> "create_target_dir", start |-> fs, fs |-> fs, removed |-> {},
      target_dir |-> target_dir(name), calls |-> 0,
      denied |-> denied, order |-> order] :
        fs \in FileSystems, name \in {ContainerName, SaveAsName},
        denied \in DeniedPaths, order \in ReadDirOrders}

\* The settings the tools are called under: each path empty or not
ToolSettings ==
    {[DefaultSettings EXCEPT !.vgaudio_cli_path = cli, !.vgaudio_cli_prepath = runtime,
                          !.vgmstream_path = vgmstream] :
        cli \in {"", DefaultSettings.vgaudio_cli_path},
        runtime \in {"", DefaultSettings.vgaudio_cli_prepath},
        vgmstream \in {"", DefaultSettings.vgmstream_path}}

\* How a run of a tool ends: it cannot be started, it is killed (no exit
\* code), or it exits with 0 or 1
ExitCodes == {None, Some(0), Some(1)}
ToolRuns(dests, stdouts) ==
    {Run(FALSE, None, None, stdout) : stdout \in stdouts}
    \cup {Run(TRUE, code, dest, stdout) :
            code \in ExitCodes, dest \in dests, stdout \in stdouts}

\* The file the tools are started on
ToolSrcFile == CachePath(ContainerName, Name("a"), "idsp")

VgaudioCliDecodeArgs ==
    {[fn |-> "vgaudio_cli_decode", item |-> item, s |-> s, run |-> run] :
        item \in SourceItems, s \in ToolSettings,
        run \in ToolRuns({None, Some(ToolWav)}, {<<>>})}
VgmstreamDecodeArgs ==
    {[fn |-> "vgmstream_decode", s |-> s, run |-> run] :
        s \in ToolSettings, run \in ToolRuns({None}, {ToolWav, Garbage})}
VgmstreamMetadataArgs ==
    {[fn |-> "vgmstream_metadata", s |-> s, run |-> run] :
        s \in ToolSettings,
        run \in ToolRuns({None},
                         {[utf8 |-> FALSE, json |-> None],
                          [utf8 |-> TRUE, json |-> None],
                          [utf8 |-> TRUE, json |-> Some(LoopDoc(JNumber(0), JNumber(1)))]})}

\* decode is called with a run of each tool at hand, under every setting
\* of the paths and of the preference
DecodeArgs ==
    {[fn |-> "decode",
      s |-> [s EXCEPT !.prefer_vgmstream_decode = prefer],
      env |-> Env(TRUE, TRUE, cli, vgmstream, NoMetadata)] :
        s \in ToolSettings, prefer \in BOOLEAN,
        cli \in ToolRuns({None, Some(ToolWav)}, {<<>>}),
        vgmstream \in ToolRuns({None}, {ToolWav, Garbage})}

\* What vgmstream -mI can print as the start and the end of a loop
LoopValues == {JNumber(n) : n \in -1..2} \cup {JString("1"), JNull}
\* The loopingInfo of a document: an object with a start, an end, both or
\* none, or something that is no object
LoopInfos ==
    {JObject([start |-> from, end |-> to]) : from \in LoopValues, to \in LoopValues}
    \cup {JObject([start |-> from]) : from \in LoopValues}
    \cup {JObject([end |-> to]) : to \in LoopValues}
    \cup {JNumber(1), JString("none"), JNull}
\* The documents: with a loopingInfo, without one, and no object at all
MetadataDocs ==
    {JObject([loopingInfo |-> info]) : info \in LoopInfos}
    \cup {JObject([version |-> JString("r1050")]), JString("none")}

LoopPointsOfArgs ==
    {[fn |-> "loop_points_of", s |-> s, run |-> run] :
        s \in ToolSettings,
        run \in ToolRuns({None},
                         {[utf8 |-> FALSE, json |-> None], [utf8 |-> TRUE, json |-> None]}
                         \cup {[utf8 |-> TRUE, json |-> Some(doc)] : doc \in MetadataDocs})}

\* Items holding PCM and no bytes: six raw samples, one or two channels,
\* without loop points or looping inside or beyond the audio
PcmSamples == <<11, 12, 13, 14, 15, 16>>
PcmLoops == {None, Some(<<0, 1>>), Some(<<0, 2>>), Some(<<1, 3>>), Some(<<2, 4>>)}
PcmItems ==
    {[ListItem_new(Name("a")) EXCEPT !.audio_raw = Some(PcmSamples),
                               !.channels = channels,
                               !.sample_rate = 48000,
                               !.length_in_samples = Len(PcmSamples) \div channels,
                               !.loop_points_samples = loop] :
        channels \in SourceChannels, loop \in PcmLoops}

GetAudioWavArgs ==
    {[fn |-> "get_audio_wav", item |-> item, end |-> end] :
        item \in PcmItems \cup SourceItems,
        end \in {None} \cup {Some(n) : n \in 0..4}}

\* Items whose names hold dots, or nothing at all
DottedNames == {<<"a", "b">>, <<"a", "b", "c">>, <<"", "a">>, <<"", "", "a">>, EmptyName}
NamedItems ==
    {[set_audio_raw(ListItem_new(name), MonoWav) EXCEPT !.bytes_raw = None] :
        name \in DottedNames}

\* get_nus3_encoded_raw for a container that has a name and for the list
\* that was never opened or saved
GetNus3EncodedRawArgs ==
    UNION {{[fn |-> "get_nus3_encoded_raw", item |-> item,
             nus3audio_name |-> nus3audio_name, extension |-> extension, env |-> env] :
                item \in PcmItems \cup SourceItems \cup NamedItems,
                nus3audio_name \in {ContainerName, EmptyName, <<"", "", "a">>},
                env \in EncodeEnvs(extension)} :
           extension \in {Idsp, Lopus}}

StartUpArgs ==
    {[fn |-> "start_up", fs |-> fs, denied |-> denied, order |-> order] :
        fs \in ResetFileSystems, denied \in DeniedPaths, order \in ReadDirOrders}

\* The menu and the close button of the window send Quit(0)
QuitArgs ==
    {[fn |-> "quit", modified |-> modified, choice |-> choice, code |-> 0,
      fs |-> fs, denied |-> denied, order |-> order] :
        modified \in BOOLEAN, choice \in {None, Some(0), Some(1)},
        fs \in ResetFileSystems, denied \in DeniedPaths, order \in ReadDirOrders}

\* Lists handed to save_nus3audio: up to MaxSavedItems items, each empty,
\* holding bytes, or holding PCM that has to be encoded, under one of two
\* names
MaxSavedItems == 3
SavedNames == {Name("a"), Name("b")}
SavedItems ==
    UNION {{ListItem_new(name),
            [set_audio_raw(ListItem_new(name), MonoWav) EXCEPT !.bytes_raw = Some(IdspFile)],
            [set_audio_raw(ListItem_new(name), MonoWav) EXCEPT !.bytes_raw = None]} :
           name \in SavedNames}
\* Around each item the encoder does its work or the cache cannot be set up
SavedOutcomes ==
    {env \in EncodeEnvs(Idsp) : ~env.mkdir \/ env.vgaudio.code = Some(0)}
SaveNus3audioArgs ==
    UNION {{[fn |-> "save_nus3audio", items |-> items, envs |-> envs, written |-> written] :
                envs \in [1..Len(items) -> SavedOutcomes], written \in BOOLEAN} :
           items \in SeqsUpTo(SavedItems, MaxSavedItems)}

\* Containers handed to the loop of Message::Open: up to MaxOpenedRecords
\* records under one of two names, holding an idsp file, a lopus file or
\* fewer than 4 bytes
MaxOpenedRecords == 3
OpenedRecords ==
    {[name |-> name, data |-> data] :
        name \in SavedNames, data \in {IdspFile, LopusFile, ShortFile}}
\* Around each record the decoder does its work or the cache cannot be set
\* up
OpenedOutcomes ==
    {env \in DecodeEnvs(DefaultSettings) :
        \/ ~env.mkdir
        \/ /\ env.vgmstream.code = Some(0)
           /\ env.vgmstream.stdout = ToolWav
           /\ env.metadata.code = Some(1)}
OpenRecordsArgs ==
    UNION {{[fn |-> "open_records", records |-> records, envs |-> envs] :
                envs \in [1..Len(records) -> OpenedOutcomes]} :
           records \in SeqsUpTo(OpenedRecords, MaxOpenedRecords)}

\* Files of codec.rs: a WAV, a stereo WAV and a text, under every encoding
EncodedFiles ==
    {from_bytes_with_encoding(bytes, encoding) :
        bytes \in {MonoWav, StereoWav44100, TextFile}, encoding \in EncodingType}
EncodeArgs ==
    {[fn |-> "encode", file |-> file, encoding |-> encoding] :
        file \in EncodedFiles, encoding \in EncodingType}

ToWavArgs ==
    {[fn |-> "to_wav", file |-> file, end |-> end] :
        file \in EncodedFiles, end \in {None} \cup {Some(n) : n \in 1..3}}

NewDefaultArgs ==
    {[fn |-> "new_default", file |-> file, on_path |-> on_path] :
        file \in SettingsFiles, on_path \in OnPaths}

FunctionsInit ==
    /\ file_list = List_new
    /\ settings = DefaultSettings
    /\ playback = Playback_new(TRUE)
    /\ \/ fn_args \in SampleRateArgs
       \/ fn_args \in SetAudioRawArgs
       \/ fn_args \in ExtensionOfEncodedArgs
       \/ fn_args \in CreateTargetDirArgs
       \/ fn_args \in VgaudioCliDecodeArgs
       \/ fn_args \in VgmstreamDecodeArgs
       \/ fn_args \in VgmstreamMetadataArgs
       \/ fn_args \in DecodeArgs
       \/ fn_args \in LoopPointsOfArgs
       \/ fn_args \in GetAudioWavArgs
       \/ fn_args \in GetNus3EncodedRawArgs
       \/ fn_args \in StartUpArgs
       \/ fn_args \in QuitArgs
       \/ fn_args \in SaveNus3audioArgs
       \/ fn_args \in OpenRecordsArgs
       \/ fn_args \in EncodeArgs
       \/ fn_args \in ToWavArgs
       \/ fn_args \in NewDefaultArgs
    /\ fn_ret = None

\* The selection of the sample rate, by set_audio_raw and by
\* rodio_decode_resample
SelectSampleRate ==
    /\ fn_args.fn = "sample_rate"
    /\ fn_ret = None
    /\ fn_ret' = Some([set_audio_raw |-> lopus_sample_rate(fn_args.decoder_sample_rate),
                       rodio_decode_resample |->
                           rodio_decode_resample_sample_rate(fn_args.decoder_sample_rate)])
    /\ UNCHANGED <<file_list, settings, fn_args, playback>>

SetAudioRaw ==
    /\ fn_args.fn = "set_audio_raw"
    /\ fn_ret = None
    /\ fn_ret' = Some(set_audio_raw(fn_args.item, fn_args.raw))
    /\ UNCHANGED <<file_list, settings, fn_args, playback>>

ExtensionOfEncoded ==
    /\ fn_args.fn = "extension_of_encoded"
    /\ fn_ret = None
    /\ fn_ret' = Some(extension_of_encoded(fn_args.encoded))
    /\ UNCHANGED <<file_list, settings, fn_args, playback>>

CreateTargetDir ==
    /\ fn_args.fn = "create_target_dir"
    /\ fn_args.calls < 2
    /\ \E t \in {create_target_dir(fn_args.fs, fn_args.target_dir, fn_args.denied,
                                    fn_args.order)} :
          /\ fn_ret' = Some(t.ret)
          /\ fn_args' = [fn_args EXCEPT !.fs = t.fs,
                                        !.removed = @ \cup t.removed,
                                        !.calls = @ + 1]
    /\ UNCHANGED <<file_list, settings, playback>>

VgaudioCliDecode ==
    /\ fn_args.fn = "vgaudio_cli_decode"
    /\ fn_ret = None
    /\ fn_ret' = Some(vgaudio_cli_decode(fn_args.item, ToolSrcFile,
                                         with_extension(ToolSrcFile, "wav"),
                                         fn_args.s, fn_args.run))
    /\ UNCHANGED <<file_list, settings, fn_args, playback>>

VgmstreamDecode ==
    /\ fn_args.fn = "vgmstream_decode"
    /\ fn_ret = None
    /\ fn_ret' = Some(vgmstream_decode(ToolSrcFile, fn_args.s, fn_args.run))
    /\ UNCHANGED <<file_list, settings, fn_args, playback>>

VgmstreamMetadata ==
    /\ fn_args.fn = "vgmstream_metadata"
    /\ fn_ret = None
    /\ fn_ret' = Some(vgmstream_metadata(ToolSrcFile, fn_args.s, fn_args.run))
    /\ UNCHANGED <<file_list, settings, fn_args, playback>>

Decode ==
    /\ fn_args.fn = "decode"
    /\ fn_ret = None
    /\ fn_ret' = Some(decode(ListItem_new(Name("a")), ToolSrcFile, fn_args.s, fn_args.env))
    /\ UNCHANGED <<file_list, settings, fn_args, playback>>

LoopPointsOf ==
    /\ fn_args.fn = "loop_points_of"
    /\ fn_ret = None
    /\ fn_ret' = Some(loop_points_of(ToolSrcFile, fn_args.s, fn_args.run))
    /\ UNCHANGED <<file_list, settings, fn_args, playback>>

GetAudioWav ==
    /\ fn_args.fn = "get_audio_wav"
    /\ fn_ret = None
    /\ fn_ret' = Some(get_audio_wav(fn_args.item, fn_args.end))
    /\ UNCHANGED <<file_list, settings, fn_args, playback>>

GetNus3EncodedRaw ==
    /\ fn_args.fn = "get_nus3_encoded_raw"
    /\ fn_ret = None
    /\ fn_ret' = Some(get_nus3_encoded_raw(fn_args.item, fn_args.nus3audio_name,
                                           fn_args.extension, DefaultSettings, fn_args.env))
    /\ UNCHANGED <<file_list, settings, fn_args, playback>>

StartUp ==
    /\ fn_args.fn = "start_up"
    /\ fn_ret = None
    /\ fn_ret' = Some(start_up(fn_args.fs, fn_args.denied, fn_args.order))
    /\ UNCHANGED <<file_list, settings, fn_args, playback>>

Quit ==
    /\ fn_args.fn = "quit"
    /\ fn_ret = None
    /\ fn_ret' = Some(quit(fn_args.modified, fn_args.choice, fn_args.code,
                           fn_args.fs, fn_args.denied, fn_args.order))
    /\ UNCHANGED <<file_list, settings, fn_args, playback>>

SaveNus3audio ==
    /\ fn_args.fn = "save_nus3audio"
    /\ fn_ret = None
    /\ fn_ret' = Some(save_nus3audio([List_new EXCEPT !.items = fn_args.items,
                                                      !.modified = TRUE],
                                     SaveAsName, DefaultSettings, fn_args.envs,
                                     fn_args.written))
    /\ UNCHANGED <<file_list, settings, fn_args, playback>>

\* The list holds an item when the container is opened
OpenRecords ==
    /\ fn_args.fn = "open_records"
    /\ fn_ret = None
    /\ fn_ret' = Some(open_records([clear(add_item(List_new, ListItem_new("old"))) EXCEPT
                                       !.name = ContainerName,
                                       !.path = Some(ContainerName)],
                                   fn_args.records, 1, DefaultSettings, fn_args.envs))
    /\ UNCHANGED <<file_list, settings, fn_args, playback>>

Encode ==
    /\ fn_args.fn = "encode"
    /\ fn_ret = None
    /\ fn_ret' = Some(encode(fn_args.file, fn_args.encoding))
    /\ UNCHANGED <<file_list, settings, fn_args, playback>>

ToWav ==
    /\ fn_args.fn = "to_wav"
    /\ fn_ret = None
    /\ fn_ret' = Some(to_wav(fn_args.file, fn_args.end))
    /\ UNCHANGED <<file_list, settings, fn_args, playback>>

NewDefault ==
    /\ fn_args.fn = "new_default"
    /\ fn_ret = None
    /\ fn_ret' = Some(new_default(fn_args.file, fn_args.on_path))
    /\ UNCHANGED <<file_list, settings, fn_args, playback>>

FunctionsNext ==
    \/ SelectSampleRate
    \/ SetAudioRaw
    \/ ExtensionOfEncoded
    \/ CreateTargetDir
    \/ VgaudioCliDecode
    \/ VgmstreamDecode
    \/ VgmstreamMetadata
    \/ Decode
    \/ LoopPointsOf
    \/ GetAudioWav
    \/ GetNus3EncodedRaw
    \/ StartUp
    \/ Quit
    \/ SaveNus3audio
    \/ OpenRecords
    \/ Encode
    \/ ToWav
    \/ NewDefault

Functions == FunctionsInit /\ [][FunctionsNext]_vars

(***************************************************************************)
(* The event loop up to the end of the process: the handlers that change   *)
(* the list and save it, and Message::Quit.  fn_args holds the last Quit   *)
(* message with the answer of the user, fn_ret what it came to.            *)
(***************************************************************************)
\* The process has not exited
Running == IF IsNone(fn_ret) THEN TRUE ELSE Unwrap(fn_ret).running

\* A file system with an empty cache directory
EmptyCache == [p \in ResetPaths |-> IF p \in {CacheBase, CACHEDIR} THEN "dir" ELSE "absent"]
\* The cache directory when the program quits: it is empty or holds the
\* directory of a container, and it can be removed or the removal is denied
QuitEnvs ==
    {[fs |-> fs, denied |-> denied, order |-> order] :
        fs \in {EmptyCache, [EmptyCache EXCEPT ![<<Name("cache"), ContainerName>>] = "dir"]},
        denied \in {{}, {CACHEDIR}},
        order \in ReadDirOrders}

\* Message::Quit(0).  The dialog is shown when the list is modified; the
\* cache directory is reset when the program goes on to quit.
QuitMessage ==
    \E choice \in {None, Some(0), Some(1)}, env \in QuitEnvs :
        /\ fn_args' = [fn |-> "Message::Quit", modified |-> file_list.modified,
                       choice |-> choice]
        /\ fn_ret' = Some(quit(file_list.modified, choice, 0, env.fs, env.denied, env.order))
        /\ UNCHANGED <<file_list, settings, playback>>

ClosingNext ==
    \/ Running /\ New
    \/ Running /\ Open
    \/ Running /\ Add
    \/ Running /\ Remove
    \/ Running /\ Replace
    \/ Running /\ Save
    \/ Running /\ SaveAs
    \/ Running /\ QuitMessage

Closing == Init /\ [][ClosingNext]_vars

(***************************************************************************)
(* Properties.  They are stated at every reachable state, for every item   *)
(* of the list and for every outcome the file system and the tools can     *)
(* have around the call in question.                                       *)
(***************************************************************************)
Indices == DOMAIN file_list.items
\* An item is Cached when it holds both PCM and bytes, Populated when it
\* holds either, and in the Bin state when it holds bytes and no PCM.
Cached(item) == IsSome(item.audio_raw) /\ IsSome(item.bytes_raw)
Populated(item) == IsSome(item.audio_raw) \/ IsSome(item.bytes_raw)
BinState(item) ==
    item.extension = Bin /\ IsSome(item.bytes_raw) /\ IsNone(item.audio_raw)

\* Every call of get_nus3_encoded_raw an export or a save can make on item
Gets(item) ==
    UNION {{[extension |-> t,
             env |-> env,
             r |-> get_nus3_encoded_raw(item, file_list.name, t, settings, env)] :
                env \in EncodeEnvs(t)} : t \in AudioExtension}

\* Every call of from_encoded an open or a replace can make on item
ImportInputs == {r.data : r \in Records} \cup {f.data : f \in ReplaceFiles}
Imports(item) ==
    {[encoded |-> b,
      env |-> env,
      r |-> from_encoded(item, file_list.name, b, settings, env)] :
         b \in ImportInputs, env \in DecodeEnvs(settings)}

\* from_encoded with these inputs gets as far as starting the decoding tool
StartsDecode(encoded, env) ==
    extension_of_encoded(encoded).ok /\ env.mkdir /\ env.write
\* What the decoding tool hands back to from_encoded
Decoded(item, encoded, env) ==
    decode(item, CachePath(file_list.name, item.name, extension_of_encoded(encoded).v),
           settings, env).ret
\* The bytes are a WAV from_encoded accepts
Readable(bytes) == wav_read(bytes).ok /\ wav_read(bytes).v.bits = 16

\* The records a save of the list builds, the item at index i replaced by item
SavedRecords(i, item) ==
    LET list == [file_list EXCEPT !.items[i] = item]
    IN {save_nus3audio(list, SaveAsName, settings, envs, TRUE).records :
            envs \in SaveEnvs(list.items)}

\* C1: after get_nus3_encoded_raw returned Ok for an item, a second call on
\* the item with no mutation in between returns the same bytes, starts no
\* tool and leaves the item as it is.
C1SecondCallHitsCache ==
    \A i \in Indices :
    \A first \in Gets(file_list.items[i]) :
        first.r.ret.ok =>
            \A env \in EncodeEnvs(first.extension) :
                LET second == get_nus3_encoded_raw(first.r.item, file_list.name,
                                                   first.extension, settings, env)
                IN /\ second.ret = first.r.ret
                   /\ second.cmds = <<>>
                   /\ second.item = first.r.item

\* An export encoded the PCM of an item, and a second export returns the
\* bytes it left on the item.
C1Witness ==
    \E i \in Indices :
        /\ Cached(file_list.items[i])
        /\ Unwrap(file_list.items[i].bytes_raw) \in Encoded(Idsp) \cup Encoded(Lopus)
        /\ \E second \in Gets(file_list.items[i]) :
              second.r.ret = Ok(Unwrap(file_list.items[i].bytes_raw))

\* C2: whenever the properties dialog is applied and changes the name, the
\* extension or the loop points of an item, the item's bytes_raw is None
\* afterwards.
C2PropertiesClearBytes ==
    \A i \in Indices :
    \A dlg \in Dialogs(file_list.items[i], TRUE) :
        LET c == configure(file_list.items[i], dlg)
        IN c.modified => IsNone(c.item.bytes_raw)

\* C3: after from_encoded decoded imported bytes B into PCM, the next
\* get_nus3_encoded_raw on the item returns B, and a save writes B into the
\* item's record.
C3ImportedBytesReturned ==
    \A i \in Indices :
    \A import \in Imports(file_list.items[i]) :
        (import.r.ret.ok /\ IsSome(import.r.item.audio_raw)) =>
            /\ \A g \in Gets(import.r.item) : g.r.ret = Ok(import.encoded)
            /\ \A records \in SavedRecords(i, import.r.item) :
                  records[i].data = import.encoded

\* C4: for an item in the Bin state (bytes present, no PCM)
\* get_nus3_encoded_raw returns the stored bytes and starts no tool, and a
\* save writes them into the item's record.
C4BinBytesReturned ==
    \A i \in Indices :
        BinState(file_list.items[i]) =>
            /\ \A g \in Gets(file_list.items[i]) :
                  /\ g.r.ret = Ok(Unwrap(file_list.items[i].bytes_raw))
                  /\ g.r.cmds = <<>>
            /\ \A records \in SavedRecords(i, file_list.items[i]) :
                  records[i].data = Unwrap(file_list.items[i].bytes_raw)

\* C5: get_nus3_encoded_raw to a target extension returns the cached bytes
\* without encoding only when they are in the target's format; when they
\* were encoded to the other format it encodes the PCM to the target.
C5CacheMatchesTarget ==
    \A i \in Indices :
    \A cached \in {Idsp, Lopus} :
        (/\ Cached(file_list.items[i])
         /\ Unwrap(file_list.items[i].bytes_raw) \in Encoded(cached)) =>
            \A g \in Gets(file_list.items[i]) :
                g.extension \in {Idsp, Lopus} =>
                    IF g.extension = cached
                    THEN /\ g.r.ret = Ok(Unwrap(file_list.items[i].bytes_raw))
                         /\ g.r.cmds = <<>>
                    ELSE /\ g.r.ret.ok => g.r.ret.v \in Encoded(g.extension)
                         /\ (g.env.mkdir /\ g.env.write) => g.r.cmds # <<>>

\* C6: set_audio_raw always leaves the loop points None; when the input
\* decodes bytes_raw is None, and when it does not bytes_raw holds exactly
\* the input.
C6SetAudioRawInvalidates ==
    \A i \in Indices :
    \A raw \in ImportInputs :
        LET item == set_audio_raw(file_list.items[i], raw)
        IN /\ item.loop_points_samples = None
           /\ IF rodio_Decoder_new(raw).ok
              THEN item.bytes_raw = None
              ELSE item.bytes_raw = Some(raw)

\* An item holds cached bytes and loop points, and set_audio_raw drops both
\* with an input that decodes and keeps the input with one that does not.
C6Witness ==
    \E i \in Indices :
        /\ Cached(file_list.items[i])
        /\ IsSome(file_list.items[i].loop_points_samples)
        /\ set_audio_raw(file_list.items[i], MonoWav).bytes_raw = None
        /\ set_audio_raw(file_list.items[i], MonoWav).loop_points_samples = None
        /\ set_audio_raw(file_list.items[i], TextFile).bytes_raw = Some(TextFile)

\* C7: when the decode in from_encoded fails, from_encoded returns Ok and
\* the item ends with extension Bin, no PCM, no loop points and the input
\* bytes as bytes_raw; the decode fails whenever both tool paths are empty.
C7DecodeFailureFallsBack ==
    \A i \in Indices :
    \A import \in Imports(file_list.items[i]) :
        StartsDecode(import.encoded, import.env) =>
            /\ ~Decoded(file_list.items[i], import.encoded, import.env).ok =>
                 /\ import.r.ret = Ok(<<>>)
                 /\ import.r.item.extension = Bin
                 /\ import.r.item.audio_raw = None
                 /\ import.r.item.loop_points_samples = None
                 /\ import.r.item.bytes_raw = Some(import.encoded)
            /\ (settings.vgaudio_cli_path = "" /\ settings.vgmstream_path = "") =>
                 ~Decoded(file_list.items[i], import.encoded, import.env).ok

\* Both tool paths are empty, an item holds PCM and loop points, and an
\* import into it leaves a Bin item holding the imported bytes only.
C7Witness ==
    /\ settings.vgaudio_cli_path = ""
    /\ settings.vgmstream_path = ""
    /\ \E i \in Indices :
         /\ IsSome(file_list.items[i].audio_raw)
         /\ IsSome(file_list.items[i].loop_points_samples)
         /\ \E import \in Imports(file_list.items[i]) :
              /\ import.encoded = IdspFile
              /\ StartsDecode(import.encoded, import.env)
              /\ import.r.ret.ok
              /\ BinState(import.r.item)
              /\ import.r.item.bytes_raw = Some(IdspFile)

\* The decoding tool handed back bytes that are no WAV from_encoded accepts
UnreadableWav(item, import) ==
    /\ StartsDecode(import.encoded, import.env)
    /\ Decoded(item, import.encoded, import.env).ok
    /\ ~Readable(Decoded(item, import.encoded, import.env).v)

\* C8, as stated: when the tool succeeds but what it returned is no readable
\* WAV, from_encoded does not fail and the item falls back to Bin, without
\* PCM, holding the input bytes.
C8WavFailureFallsBack ==
    \A i \in Indices :
    \A import \in Imports(file_list.items[i]) :
        UnreadableWav(file_list.items[i], import) =>
            /\ import.r.ret.ok
            /\ import.r.item.extension = Bin
            /\ import.r.item.audio_raw = None
            /\ import.r.item.bytes_raw = Some(import.encoded)

\* C8, amended: when the tool succeeds but what it returned is no readable
\* WAV, from_encoded returns an error and leaves the item as it was; a
\* replace with such a file fails and leaves the list as it was, and an
\* open of a container with such a record adds the item the record starts
\* as, without PCM and without bytes.
C8WavFailureIsError ==
    \A i \in Indices :
    \A import \in Imports(file_list.items[i]) :
        LET item == file_list.items[i]
            started == [ListItem_new(item.name) EXCEPT
                           !.extension = extension_of_encoded(import.encoded).v]
        IN /\ UnreadableWav(item, import) =>
                /\ ~import.r.ret.ok
                /\ import.r.item = item
                /\ \A metadata \in MetadataRuns \cup {NoMetadata} :
                      LET replaced == replace(file_list, i,
                                              Some([extension |-> "idsp",
                                                    data |-> import.encoded]),
                                              TRUE, settings, import.env, metadata)
                      IN ~replaced.ret.ok /\ replaced.list = file_list
           /\ UnreadableWav(started, import) =>
                open_records([file_list EXCEPT !.items = <<>>],
                             <<[name |-> item.name, data |-> import.encoded]>>,
                             1, settings, <<import.env>>).items = <<started>>

\* An item holds PCM, and an import into it for which the tool hands back
\* an unreadable WAV, or one that is not 16 bit, fails and changes nothing.
C8Witness ==
    \E i \in Indices :
        /\ IsSome(file_list.items[i].audio_raw)
        /\ \A bytes \in {Garbage, ToolWav8} :
           \E import \in Imports(file_list.items[i]) :
              /\ UnreadableWav(file_list.items[i], import)
              /\ Decoded(file_list.items[i], import.encoded, import.env).v = bytes
              /\ ~import.r.ret.ok
              /\ import.r.item = file_list.items[i]

\* C9: in every reachable state an item with extension Bin has no PCM.
C9BinHasNoPcm ==
    \A i \in Indices :
        file_list.items[i].extension = Bin => IsNone(file_list.items[i].audio_raw)

\* C10: an item that holds bytes or PCM still holds bytes or PCM after any
\* properties edit, export or save.
C10PopulatedStaysPopulated ==
    \A i \in Indices :
        Populated(file_list.items[i]) =>
            /\ \A dlg \in Dialogs(file_list.items[i], TRUE) :
                  Populated(configure(file_list.items[i], dlg).item)
            /\ \A g \in Gets(file_list.items[i]) : Populated(g.r.item)
            /\ \A envs \in SaveEnvs(file_list.items) :
                  Populated(save_nus3audio(file_list, SaveAsName, settings, envs,
                                           TRUE).list.items[i])

\* C11: in every reachable state the loop points of an item are None or a
\* pair (start, end) with start < end, whether the properties dialog or the
\* metadata of vgmstream set them.
C11LoopPointsOrdered ==
    \A i \in Indices :
        IsSome(file_list.items[i].loop_points_samples) =>
            Unwrap(file_list.items[i].loop_points_samples)[1]
                < Unwrap(file_list.items[i].loop_points_samples)[2]

\* An item has loop points while vgmstream is configured, metadata that
\* places the end at or before the start yields no loop points, and the
\* dialog does not accept such a pair.
C11Witness ==
    /\ settings.vgmstream_path # ""
    /\ \E i \in Indices :
         /\ file_list.items[i].loop_points_samples = Some(<<0, 1>>)
         /\ \E run \in MetadataRuns :
              /\ run.stdout.json = Some(LoopDoc(JNumber(1), JNumber(0)))
              /\ vgmstream_metadata(<<"", "chosen", "idsp">>, settings, run).ret.ok
              /\ loop_points_of(<<"", "chosen", "idsp">>, settings, run).ret = None
         /\ \A dlg \in Dialogs(file_list.items[i], TRUE) :
              dlg.loop_toggle =>
                  unwrap_or(parse_usize(dlg.loop_from_input), 0)
                      < unwrap_or(parse_usize(dlg.loop_to_input), 0)

\* C12: in every reachable state where the loop points of an item are
\* Some((start, end)), start and end are both less than the item's
\* length_in_samples.
C12LoopPointsInsideAudio ==
    \A i \in Indices :
        IsSome(file_list.items[i].loop_points_samples) =>
            /\ Unwrap(file_list.items[i].loop_points_samples)[1]
                   < file_list.items[i].length_in_samples
            /\ Unwrap(file_list.items[i].loop_points_samples)[2]
                   < file_list.items[i].length_in_samples

\* C13: after every successful decode of an item, by set_audio_raw or by
\* from_encoded, length_in_samples is the number of decoded samples divided
\* by the channel count of that decode, and sample_rate and channels are
\* those of that decode.
C13DecodeSetsAudioFormat ==
    \A i \in Indices :
        /\ \A raw \in ImportInputs :
              rodio_Decoder_new(raw).ok =>
                  LET item == set_audio_raw(file_list.items[i], raw)
                      decoder == rodio_Decoder_new(raw).v
                  IN /\ item.channels = IF decoder.channels = 1 THEN 1 ELSE 2
                     /\ item.sample_rate = lopus_sample_rate(decoder.sample_rate)
                     /\ item.length_in_samples
                            = Len(Unwrap(item.audio_raw)) \div item.channels
        /\ \A import \in Imports(file_list.items[i]) :
              (import.r.ret.ok /\ IsSome(import.r.item.audio_raw)) =>
                  LET wav == wav_read(Decoded(file_list.items[i], import.encoded,
                                              import.env).v).v
                  IN /\ import.r.item.channels = wav.channel_count
                     /\ import.r.item.sample_rate = wav.sampling_rate
                     /\ import.r.item.length_in_samples
                            = Len(wav.data) \div wav.channel_count

(***************************************************************************)
(* Properties of the functions called on their own.                        *)
(***************************************************************************)
Called(fn) == fn_args # None /\ fn_args.fn = fn /\ IsSome(fn_ret)

\* The sample rates the lopus format supports
LopusRates == {8000, 12000, 16000, 24000, 48000}

\* C14: the sample rate chosen for a source rate r is a rate lopus
\* supports; it is the smallest such rate that is >= r when r <= 48000, and
\* 48000 when r > 24000; set_audio_raw and rodio_decode_resample choose the
\* same rate.
C14SampleRateSelection ==
    Called("sample_rate") =>
        LET r == fn_args.decoder_sample_rate
            chosen == Unwrap(fn_ret).set_audio_raw
        IN /\ chosen \in LopusRates
           /\ r <= 48000 =>
                (chosen >= r /\ \A rate \in LopusRates : rate >= r => chosen <= rate)
           /\ r > 24000 => chosen = 48000
           /\ Unwrap(fn_ret).rodio_decode_resample = chosen

\* A rate on a threshold keeps its value: 24000 is chosen for 24000.
C14Witness ==
    /\ Called("sample_rate")
    /\ fn_args.decoder_sample_rate = 24000
    /\ Unwrap(fn_ret).set_audio_raw = 24000

\* C15: after set_audio_raw decoded its input the item's sample rate is one
\* lopus supports and its channel count is 1 when the source has one channel
\* and 2 otherwise; a source of 2 channels at 44100 Hz ends at 48000 Hz with
\* 2 channels.
C15SetAudioRawNormalizes ==
    (Called("set_audio_raw") /\ rodio_Decoder_new(fn_args.raw).ok) =>
        LET decoder == rodio_Decoder_new(fn_args.raw).v
            item == Unwrap(fn_ret)
        IN /\ item.sample_rate \in LopusRates
           /\ item.channels = IF decoder.channels = 1 THEN 1 ELSE 2
           /\ IsSome(item.audio_raw)
           /\ (decoder.channels = 2 /\ decoder.sample_rate = 44100) =>
                (item.sample_rate = 48000 /\ item.channels = 2)

\* set_audio_raw decoded a file of 2 channels at 44100 Hz into an item that
\* held 1 channel at 48000 Hz.
C15Witness ==
    /\ Called("set_audio_raw")
    /\ fn_args.raw = StereoWav44100
    /\ fn_args.item.channels = 1
    /\ Unwrap(fn_ret).sample_rate = 48000
    /\ Unwrap(fn_ret).channels = 2

\* C16: extension_of_encoded returns Idsp when the first 4 bytes are "IDSP",
\* Lopus for every other input of 4 bytes or more, and an error for every
\* input shorter than 4 bytes; it never returns Bin.
C16ExtensionOfEncoded ==
    Called("extension_of_encoded") =>
        LET encoded == fn_args.encoded
            extension == Unwrap(fn_ret)
            magic == /\ encoded[1] = 73
                     /\ encoded[2] = 68
                     /\ encoded[3] = 83
                     /\ encoded[4] = 80
        IN /\ Len(encoded) < 4 => ~extension.ok
           /\ (Len(encoded) >= 4 /\ magic) => extension = Ok(Idsp)
           /\ (Len(encoded) >= 4 /\ ~magic) => extension = Ok(Lopus)
           /\ extension # Ok(Bin)

\* A buffer of 5 bytes that differs from "IDSP" in its fourth byte only is
\* Lopus.
C16Witness ==
    /\ Called("extension_of_encoded")
    /\ fn_args.encoded = <<73, 68, 83, 0, 80>>
    /\ Unwrap(fn_ret) = Ok(Lopus)

\* C17: create_target_dir(dir) ends with dir an empty directory from the
\* three starts: a directory loses what it holds and is not itself removed,
\* a file is removed and a directory created in its place, an absent path is
\* created; the same holds after a second call in a row, and nothing
\* outside dir is removed or changed.  It returns an error only when the
\* file system denies it an operation it needs; then, too, nothing outside
\* dir is removed or changed and a directory dir is not itself removed.
C17CreateTargetDirEmpties ==
    Called("create_target_dir") =>
        LET dir == fn_args.target_dir
            \* an operation the call needs is denied: for a directory on
            \* something that lies in it, otherwise on the path itself
            obstructed ==
                IF fn_args.start[dir] = "dir"
                THEN \E p \in FsPaths :
                        /\ IsPrefix(dir, p) /\ p # dir /\ fn_args.start[p] # "absent"
                        /\ (p \in fn_args.denied \/ Parent(p) \in fn_args.denied)
                ELSE dir \in fn_args.denied \/ Parent(dir) \in fn_args.denied
        IN
        /\ Unwrap(fn_ret).ok <=> ~obstructed
        /\ \A p \in FsPaths : ~IsPrefix(dir, p) => fn_args.fs[p] = fn_args.start[p]
        /\ \A p \in fn_args.removed : IsPrefix(dir, p)
        /\ fn_args.start[dir] = "dir" => (fn_args.fs[dir] = "dir" /\ dir \notin fn_args.removed)
        /\ Unwrap(fn_ret).ok =>
             /\ Unwrap(fn_ret) = Ok(<<>>)
             /\ fn_args.fs[dir] = "dir"
             /\ \A p \in FsPaths : (IsPrefix(dir, p) /\ p # dir) => fn_args.fs[p] = "absent"
             /\ fn_args.start[dir] = "dir" =>
                  fn_args.removed = {p \in FsPaths : IsPrefix(dir, p) /\ p # dir
                                                     /\ fn_args.start[p] # "absent"}
             /\ fn_args.start[dir] = "file" => fn_args.removed = {dir}
             /\ fn_args.start[dir] = "absent" => fn_args.removed = {}

\* Two calls in a row on a directory that held a file and a directory with
\* a file in it, next to another directory that holds a file; the program
\* may not change that other file, and both calls succeed.
C17Witness ==
    /\ Called("create_target_dir")
    /\ fn_args.calls = 2
    /\ fn_args.target_dir = <<Name("cache"), ContainerName>>
    /\ fn_args.start[<<Name("cache"), ContainerName, Name("f")>>] = "file"
    /\ fn_args.start[<<Name("cache"), ContainerName, Name("sub"), Name("g")>>] = "file"
    /\ fn_args.start[<<Name("cache"), SaveAsName, Name("x")>>] = "file"
    /\ fn_args.fs[<<Name("cache"), SaveAsName, Name("x")>>] = "file"
    /\ fn_args.denied = {<<Name("cache"), SaveAsName, Name("x")>>}
    /\ read_dir(fn_args.fs, fn_args.target_dir) = {}
    /\ Unwrap(fn_ret) = Ok(<<>>)

\* The directories the transcodes of the handlers clear: a replace and an
\* export work in the directory named after the list, a save in the one
\* named after the file saved to.
ClearedDirs ==
    {target_dir(file_list.name), target_dir(SaveAsName)}
    \cup IF IsSome(file_list.path) THEN {target_dir(Unwrap(file_list.path))} ELSE {}

\* C18: every directory that a transcode clears is a strict subdirectory of
\* the cache root named after the container; what the cache root holds
\* next to it is never cleared by a transcode, also for a new list, whose
\* name is the empty string.
C18TranscodeClearsSubdirOnly ==
    Indices # {} =>
        \A dir \in ClearedDirs :
            /\ Len(dir) = Len(CACHEDIR) + 1
            /\ Parent(dir) = CACHEDIR
            /\ dir \in FsPaths =>
                 \A fs \in FileSystems, denied \in DeniedPaths, order \in ReadDirOrders :
                 \A p \in FsPaths :
                    ~IsPrefix(dir, p) =>
                        create_target_dir(fs, dir, denied, order).fs[p] = fs[p]

\* The calls of the three functions that start a tool, and the path of the
\* tool a call needs
ToolCalled ==
    \/ Called("vgaudio_cli_decode")
    \/ Called("vgmstream_decode")
    \/ Called("vgmstream_metadata")
ToolPath ==
    IF fn_args.fn = "vgaudio_cli_decode" THEN fn_args.s.vgaudio_cli_path
    ELSE fn_args.s.vgmstream_path

\* C19: for VGAudioCli and for vgmstream, decoding and reading metadata, a
\* run that exits with a code other than 0 yields the error of the exit
\* code, a run that ends without an exit code yields another error, and in
\* neither case is what the tool wrote returned as a success.
C19ToolFailureIsError ==
    (ToolCalled /\ ToolPath # "" /\ fn_args.run.spawn) =>
        LET returned == Unwrap(fn_ret).ret
            by_code(e) == e \in {"Attempted running VGAudioCli, found exit code",
                                 "Attempted running vgmstream, found exit code"}
        IN /\ (IsSome(fn_args.run.code) /\ Unwrap(fn_args.run.code) # 0) =>
                (~returned.ok /\ by_code(returned.e))
           /\ IsNone(fn_args.run.code) =>
                (~returned.ok /\ ~by_code(returned.e))

\* C20: when the configured path of a tool is empty, vgaudio_cli_decode,
\* vgmstream_decode and vgmstream_metadata return an error and start no
\* process.
C20EmptyPathIsError ==
    (ToolCalled /\ ToolPath = "") =>
        /\ ~Unwrap(fn_ret).ret.ok
        /\ Unwrap(fn_ret).cmds = <<>>

\* vgmstream_metadata was called with an empty vgmstream path, for a run
\* that would have handed back loop points.
C20Witness ==
    /\ Called("vgmstream_metadata")
    /\ fn_args.s.vgmstream_path = ""
    /\ fn_args.run.spawn
    /\ fn_args.run.code = Some(0)
    /\ IsSome(fn_args.run.stdout.json)
    /\ ~Unwrap(fn_ret).ret.ok

\* The commands that start vgmstream and VGAudioCli: vgmstream is started
\* with -p or -mI as its first argument, VGAudioCli with -c among them
StartsVgmstream(command) == command.args[1] \in {<<"-p">>, <<"-mI">>}
StartsVgaudioCli(command) == \E k \in DOMAIN command.args : command.args[k] = <<"-c">>
HasLoopFlags(command) == \E k \in DOMAIN command.args : command.args[k] = <<"-l">>

\* C21: decode uses vgmstream when prefer_vgmstream_decode is set and the
\* vgmstream path is not empty, and VGAudioCli otherwise; when it is not
\* set it uses VGAudioCli when its path is not empty and vgmstream
\* otherwise.  One tool is tried: what the chosen tool returns is what
\* decode returns, also when it fails and the other tool would not.
C21DecodeChoosesOneTool ==
    Called("decode") =>
        LET s == fn_args.s
            returned == Unwrap(fn_ret)
            vgmstream == IF s.prefer_vgmstream_decode
                         THEN s.vgmstream_path # ""
                         ELSE s.vgaudio_cli_path = ""
            path == IF vgmstream THEN s.vgmstream_path ELSE s.vgaudio_cli_path
            run == IF vgmstream THEN fn_args.env.vgmstream ELSE fn_args.env.vgaudio
        IN /\ Len(returned.cmds) = IF path = "" THEN 0 ELSE 1
           /\ \A k \in DOMAIN returned.cmds :
                IF vgmstream
                THEN StartsVgmstream(returned.cmds[k]) /\ ~StartsVgaudioCli(returned.cmds[k])
                ELSE StartsVgaudioCli(returned.cmds[k]) /\ ~StartsVgmstream(returned.cmds[k])
           /\ (path = "" \/ ~run.spawn) => ~returned.ret.ok
           /\ (IsSome(run.code) /\ Unwrap(run.code) # 0) => ~returned.ret.ok
           /\ returned.ret.ok =>
                returned.ret.v = IF vgmstream THEN run.stdout ELSE Unwrap(run.dest)

\* vgmstream is preferred and configured and its run fails, VGAudioCli is
\* configured and its run would have written a WAV: decode fails after
\* starting vgmstream only.
C21Witness ==
    /\ Called("decode")
    /\ fn_args.s.prefer_vgmstream_decode
    /\ fn_args.s.vgmstream_path # ""
    /\ fn_args.s.vgaudio_cli_path # ""
    /\ fn_args.env.vgmstream.code = Some(1)
    /\ fn_args.env.vgaudio.code = Some(0)
    /\ fn_args.env.vgaudio.dest = Some(ToolWav)
    /\ ~Unwrap(fn_ret).ret.ok
    /\ Len(Unwrap(fn_ret).cmds) = 1
    /\ StartsVgmstream(Unwrap(fn_ret).cmds[1])

\* C22: VGAudioCli gets the loop flags (-l start-end --cbr --opusheader
\* namco) only when it encodes the WAV of an item that has loop points; a
\* decode during from_encoded never carries them, also when the item still
\* holds the loop points of its previous audio.
C22LoopFlagsOnEncodeOnly ==
    \A i \in Indices :
        /\ \A import \in Imports(file_list.items[i]) :
           \A k \in DOMAIN import.r.cmds :
              ~HasLoopFlags(import.r.cmds[k])
        /\ \A g \in Gets(file_list.items[i]) :
           \A k \in DOMAIN g.r.cmds :
              HasLoopFlags(g.r.cmds[k]) <=> IsSome(file_list.items[i].loop_points_samples)

\* C23: the command of VGAudioCli is a list of arguments: with a prepath
\* the program is the prepath and the path of VGAudioCli its first argument,
\* without one the program is the path of VGAudioCli; the arguments that
\* follow are -c, the source file and the destination file, in that order.
C23VgaudioCliCommand ==
    (Called("vgaudio_cli_decode") /\ fn_args.s.vgaudio_cli_path # "") =>
        LET cmds == Unwrap(fn_ret).cmds
            command == cmds[1]
            rest == IF fn_args.s.vgaudio_cli_prepath # ""
                    THEN Tail(command.args)
                    ELSE command.args
        IN /\ Len(cmds) = 1
           /\ IF fn_args.s.vgaudio_cli_prepath # ""
              THEN /\ command.program = fn_args.s.vgaudio_cli_prepath
                   /\ Head(command.args) = <<fn_args.s.vgaudio_cli_path>>
              ELSE command.program = fn_args.s.vgaudio_cli_path
           /\ Len(rest) >= 3
           /\ SubSeq(rest, 1, 3)
                = <<<<"-c">>, ToolSrcFile, with_extension(ToolSrcFile, "wav")>>
           /\ Len(rest) = IF IsSome(fn_args.item.loop_points_samples) THEN 8 ELSE 3

\* VGAudioCli is started without a prepath, on an item with loop points.
C23Witness ==
    /\ Called("vgaudio_cli_decode")
    /\ fn_args.s.vgaudio_cli_path # ""
    /\ fn_args.s.vgaudio_cli_prepath = ""
    /\ IsSome(fn_args.item.loop_points_samples)
    /\ Unwrap(fn_ret).cmds[1].program = fn_args.s.vgaudio_cli_path
    /\ Len(Unwrap(fn_ret).cmds[1].args) = 8

\* A JSON value is an object with the key, is an unsigned integer
HasKey(value, key) == value.t = "object" /\ key \in DOMAIN value.m
IsUnsigned(value) == value.t = "number" /\ value.n >= 0

\* C24: loop_points_of returns Some((start, end)) exactly when the metadata
\* of vgmstream was obtained (vgmstream is configured, was started and
\* exited with code 0, and its output is a JSON document), holds an object
\* loopingInfo whose start and end are unsigned integers, and end > start;
\* in every other case, a run of vgmstream that failed among them, it
\* returns None, and it never returns an error.
C24LoopPointsOf ==
    Called("loop_points_of") =>
        LET run == fn_args.run
            obtained == /\ fn_args.s.vgmstream_path # ""
                        /\ run.spawn
                        /\ run.code = Some(0)
                        /\ run.stdout.utf8
                        /\ IsSome(run.stdout.json)
            doc == Unwrap(run.stdout.json)
            info == doc.m.loopingInfo
            valid == /\ obtained
                     /\ HasKey(doc, "loopingInfo")
                     /\ HasKey(info, "start")
                     /\ HasKey(info, "end")
                     /\ IsUnsigned(info.m.start)
                     /\ IsUnsigned(info.m.end)
                     /\ info.m.end.n > info.m.start.n
        IN Unwrap(fn_ret).ret = IF valid THEN Some(<<info.m.start.n, info.m.end.n>>)
                                ELSE None

\* C25: get_nus3_encoded_raw on an item that holds neither PCM nor bytes
\* returns the error of an empty item, whatever the file system and the
\* encoder would do: create_target_dir is not reached (its failure would
\* be the error returned), no tool is started, and the item is unchanged.
C25EmptyItemIsAnError ==
    \A i \in Indices :
        ~Populated(file_list.items[i]) =>
            \A g \in Gets(file_list.items[i]) :
                /\ ~g.r.ret.ok
                /\ g.r.ret.e = "Audio of selected item is empty"
                /\ g.r.cmds = <<>>
                /\ g.r.item = file_list.items[i]

\* An empty item is in the list, and it is asked for its bytes while the
\* cache subdirectory cannot be created.
C25Witness ==
    \E i \in Indices :
        /\ ~Populated(file_list.items[i])
        /\ \E g \in Gets(file_list.items[i]) : ~g.env.mkdir /\ ~g.r.ret.ok

\* The WAV holds exactly the first `count` raw samples of the item, under
\* a header with the item's channels and sample rate and 16 bits
HoldsFirstSamples(wav, item, count) ==
    LET raw == Unwrap(item.audio_raw)
        read == wav_read(wav)
    IN /\ read.ok
       /\ read.v.channel_count = item.channels
       /\ read.v.sampling_rate = item.sample_rate
       /\ read.v.bits = 16
       /\ Len(read.v.data) = count
       /\ \A k \in 1..count : read.v.data[k] = raw[k]
SmallerOf(a, b) == IF a < b THEN a ELSE b

\* C26: on an item with PCM, get_audio_wav(None) writes all raw samples and
\* get_audio_wav(Some(n)) writes exactly the first
\* min(n * channels, number of raw samples) raw samples; get_nus3_encoded_raw
\* calls it with the loop end, so the WAV written for the encoder stops at
\* the loop end of an item with loop points and is whole for an item
\* without.
C26WavTruncatedAtEnd ==
    /\ Called("get_audio_wav") /\ IsSome(fn_args.item.audio_raw) =>
         LET item == fn_args.item
             total == Len(Unwrap(item.audio_raw))
             count == IF IsSome(fn_args.end)
                      THEN SmallerOf(Unwrap(fn_args.end) * item.channels, total)
                      ELSE total
         IN /\ Unwrap(fn_ret).ok
            /\ HoldsFirstSamples(Unwrap(fn_ret).v, item, count)
    /\ Called("get_nus3_encoded_raw") /\ IsSome(Unwrap(fn_ret).src) =>
         LET item == fn_args.item
             total == Len(Unwrap(item.audio_raw))
             count == IF IsSome(item.loop_points_samples)
                      THEN SmallerOf(Unwrap(item.loop_points_samples)[2] * item.channels, total)
                      ELSE total
         IN HoldsFirstSamples(Unwrap(Unwrap(fn_ret).src), item, count)

\* A stereo item of six raw samples that loops from 0 to 2 is encoded: the
\* WAV written for the encoder holds four samples.
C26Witness ==
    /\ Called("get_nus3_encoded_raw")
    /\ fn_args.item.channels = 2
    /\ fn_args.item.loop_points_samples = Some(<<0, 2>>)
    /\ IsSome(Unwrap(fn_ret).src)
    /\ Len(wav_read(Unwrap(Unwrap(fn_ret).src)).v.data) = 4
    /\ Unwrap(fn_ret).ret.ok

\* The cache root exists as a directory and holds nothing
CacheIsEmpty(fs) == fs[CACHEDIR] = "dir" /\ read_dir(fs, CACHEDIR) = {}

\* C27: at start-up and when quitting, an error of reset_cache ends the
\* process with a non-zero exit code, and no message is handled after it;
\* when reset_cache succeeds, the cache root exists and is empty.
C27ResetCacheFailureIsFatal ==
    (Called("start_up") \/ Called("quit")) /\ IsSome(Unwrap(fn_ret).reset) =>
        LET r == Unwrap(fn_ret) IN
        IF Unwrap(r.reset).ok
        THEN CacheIsEmpty(r.fs)
        ELSE /\ IsSome(r.exit)
             /\ Unwrap(r.exit) # 0
             /\ ~r.running

\* The cache directory holds a subdirectory with a file in it that the
\* program may not remove: the reset at start-up fails and the process
\* exits with 1.
C27Witness ==
    /\ Called("start_up")
    /\ fn_args.fs[<<Name("cache"), ContainerName, Name("f")>>] = "file"
    /\ fn_args.denied = {<<Name("cache"), ContainerName, Name("f")>>}
    /\ ~Unwrap(Unwrap(fn_ret).reset).ok
    /\ Unwrap(fn_ret).exit = Some(1)

\* C28: the container save_nus3audio builds holds exactly one record per
\* item of the list, in the order of the list; each record has the name of
\* its item and, as its id, the 0-based position of the item in the list.
\* This holds whether or not the item has bytes to give.
C28OneRecordPerItem ==
    Called("save_nus3audio") =>
        LET records == Unwrap(fn_ret).records
            items == fn_args.items
        IN /\ Len(records) = Len(items)
           /\ \A k \in 1..Len(items) :
                /\ records[k].id = k - 1
                /\ records[k].name = items[k].name

\* A list of three items is saved, the second of them empty and named
\* unlike the other two: the container holds three records, the second
\* with id 1, that name and no data.
C28Witness ==
    /\ Called("save_nus3audio")
    /\ Len(fn_args.items) = 3
    /\ fn_args.items[1].name = Name("a")
    /\ fn_args.items[2] = ListItem_new(Name("b"))
    /\ fn_args.items[3].name = Name("a")
    /\ Len(Unwrap(fn_ret).records) = 3
    /\ Unwrap(fn_ret).records[2] = [id |-> 1, name |-> Name("b"), data |-> <<>>]

\* from_encoded rejects record k of the container that is opened
RecordFails(k) ==
    ~from_encoded(ListItem_new(fn_args.records[k].name), ContainerName,
                  fn_args.records[k].data, DefaultSettings, fn_args.envs[k]).ret.ok

\* C29: after a container was opened the list holds exactly one item per
\* record of the container, in the order of the records, each under the
\* name of its record; this holds also when from_encoded rejects records,
\* for their bytes are fewer than 4 or cannot be decoded.
C29OneItemPerRecord ==
    Called("open_records") =>
        LET items == Unwrap(fn_ret).items
            records == fn_args.records
        IN /\ Len(items) = Len(records)
           /\ \A k \in 1..Len(records) : items[k].name = records[k].name

\* A container of three records is opened: the first holds fewer than 4
\* bytes, the second cannot be decoded, the third decodes.  The list holds
\* three items and the third has audio.
C29Witness ==
    /\ Called("open_records")
    /\ Len(fn_args.records) = 3
    /\ fn_args.records[1].data = ShortFile
    /\ fn_args.records[2].data = IdspFile
    /\ RecordFails(1)
    /\ RecordFails(2)
    /\ ~RecordFails(3)
    /\ Len(Unwrap(fn_ret).items) = 3
    /\ IsSome(Unwrap(fn_ret).items[3].audio_raw)

\* Every call of List::replace the Replace handler can make on item i
Replacements(i) ==
    {replace(file_list, i, chosen, readable, settings, env, metadata) :
        chosen \in {None} \cup {Some(f) : f \in ReplaceFiles},
        readable \in BOOLEAN,
        env \in DecodeEnvs(settings),
        metadata \in MetadataRuns \cup {NoMetadata}}

\* C30: whenever List::replace returns Ok, the list it leaves is marked as
\* modified.
C30ReplaceOkMarksModified ==
    \A i \in Indices :
        \A r \in Replacements(i) : r.ret.ok => r.list.modified

\* The call returned this error, and did not panic
ReturnsError(r, e) == ~r.panic /\ ~Unwrap(r.ret).ok /\ Unwrap(r.ret).e = e

\* C31: encode(Bin) returns the bytes of the file unchanged when the
\* encoding of the file is Bin and the error EncodeBin when it is not;
\* to_wav on a file whose encoding is Bin returns the error DecodeBin;
\* neither of the two calls panics.
C31BinIsNoFormat ==
    /\ Called("encode") /\ fn_args.encoding = EncodingType_Bin =>
         LET r == Unwrap(fn_ret) IN
         IF fn_args.file.encoding = EncodingType_Bin
         THEN ~r.panic /\ Unwrap(r.ret).ok /\ Unwrap(r.ret).v = fn_args.file.bytes
         ELSE ReturnsError(r, "EncodeBin")
    /\ Called("to_wav") /\ fn_args.file.encoding = EncodingType_Bin =>
         ReturnsError(Unwrap(fn_ret), "DecodeBin")

\* A file that holds a WAV under the encoding WAV is asked for as Bin.
C31Witness ==
    /\ Called("encode")
    /\ fn_args.encoding = EncodingType_Bin
    /\ fn_args.file = from_bytes_with_encoding(MonoWav, EncodingType_WAV)
    /\ ReturnsError(Unwrap(fn_ret), "EncodeBin")

\* The errors of from_encoded for a WAV it cannot use
WavErrors ==
    {"Error reading returned wav", "Error reading returned wav: Wrong bit depth found"}

\* C32: when the tool hands back data that is no readable 16-bit WAV,
\* from_encoded returns an error that it returns in no other case (a
\* decode that fails is no error: the item falls back to Bin), and the
\* audio, the bytes, the extension, the loop points, the sample rate and
\* the channels of the item are what they were before the call.
C32UnreadableWavChangesNothing ==
    \A i \in Indices :
    \A import \in Imports(file_list.items[i]) :
        LET item == file_list.items[i]
            after == import.r.item
            wav_error == ~import.r.ret.ok /\ import.r.ret.e \in WavErrors
        IN /\ wav_error <=> UnreadableWav(item, import)
           /\ StartsDecode(import.encoded, import.env)
              /\ ~Decoded(item, import.encoded, import.env).ok => import.r.ret.ok
           /\ wav_error =>
                /\ after.audio_raw = item.audio_raw
                /\ after.bytes_raw = item.bytes_raw
                /\ after.extension = item.extension
                /\ after.loop_points_samples = item.loop_points_samples
                /\ after.sample_rate = item.sample_rate
                /\ after.channels = item.channels

\* An item holds PCM, bytes and loop points; the tool hands back an 8-bit
\* WAV for the file imported into it: the import fails with the error of
\* the wrong bit depth and the item keeps all it held.
C32Witness ==
    \E i \in Indices :
        /\ Cached(file_list.items[i])
        /\ IsSome(file_list.items[i].loop_points_samples)
        /\ \E import \in Imports(file_list.items[i]) :
              /\ UnreadableWav(file_list.items[i], import)
              /\ Decoded(file_list.items[i], import.encoded, import.env).v = ToolWav8
              /\ ~import.r.ret.ok
              /\ import.r.ret.e = "Error reading returned wav: Wrong bit depth found"
              /\ import.r.item = file_list.items[i]

\* What get_nus3_encoded_raw returns for item k of the list that is saved
EncodedForSave(k) ==
    get_nus3_encoded_raw(fn_args.items[k], SaveAsName, fn_args.items[k].extension,
                         DefaultSettings, fn_args.envs[k]).ret

\* C33: save_nus3audio returns Ok only if the data of every record is the
\* encoded bytes of its item: when the encoding of an item fails, the save
\* returns an error and does not report success over a record without data.
C33SaveReportsEncodeFailure ==
    Called("save_nus3audio") /\ Unwrap(fn_ret).ret.ok =>
        \A k \in 1..Len(fn_args.items) :
            /\ EncodedForSave(k).ok
            /\ Unwrap(fn_ret).records[k].data = EncodedForSave(k).v

\* Quit asks about unsaved changes: the answer "Go back" keeps the program
\* running
QuitAsks(list) == quit(list.modified, Some(1), 0, EmptyCache, {}, ReadDirOrder(TRUE, TRUE)).running

\* Every save the Save and SaveAs handlers can make of the list
Saves ==
    {[written |-> written,
      r |-> save_nus3audio(file_list, name, settings, envs, written)] :
        name \in {SaveAsName, ContainerName},
        envs \in SaveEnvs(file_list.items),
        written \in BOOLEAN}

\* C34: save_nus3audio returns Ok and leaves the list unmodified when the
\* container file was written; when the write fails it returns an error
\* and the modified flag is what it was, so that Quit asks about the
\* unsaved changes of a modified list.
C34SaveClearsModifiedOnWrite ==
    \A save \in Saves :
        IF save.written
        THEN save.r.ret.ok /\ ~save.r.list.modified
        ELSE /\ ~save.r.ret.ok
             /\ save.r.list.modified = file_list.modified
             /\ file_list.modified => QuitAsks(save.r.list)

\* A modified list with an item is saved and the write fails: the list
\* stays modified; the same save with a write that succeeds leaves it
\* unmodified.
C34Witness ==
    /\ file_list.modified
    /\ Indices # {}
    /\ \E save \in Saves :
          ~save.written /\ ~save.r.ret.ok /\ save.r.list.modified
    /\ \E save \in Saves :
          save.written /\ save.r.ret.ok /\ ~save.r.list.modified

\* C35: the list that Open leaves after it loaded a container, before any
\* edit, is unmodified, so that Quit does not ask about unsaved changes.
C35OpenLeavesUnmodified ==
    Called("open_records") =>
        /\ ~Unwrap(fn_ret).modified
        /\ ~QuitAsks(Unwrap(fn_ret))

\* C36: the list that New leaves has no items, is unmodified and has
\* neither a path nor a container name; having no path, the next Save asks
\* for a destination and does not write to the file opened before.
C36NewForgetsContainer ==
    LET after == clear(file_list) IN
    /\ after.items = <<>>
    /\ ~after.modified
    /\ IsNone(after.path)
    /\ after.name = EmptyName

\* The data a save under envs writes for item i when the item is `item`
SavedData(i, item, envs) ==
    save_nus3audio([file_list EXCEPT !.items[i] = item], SaveAsName, settings, envs,
                   TRUE).records[i].data

\* C37: an export of a single item, to any extension, does not change the
\* bytes a later save writes for the item.  The save after the export is
\* compared with the save without it under the same outcomes of the
\* encoder; an export to the item's own extension is one of these
\* outcomes.
C37ExportLeavesSavedBytes ==
    \A i \in Indices :
    \A g \in Gets(file_list.items[i]) :
    \A envs \in SaveEnvs(file_list.items) :
        LET item == file_list.items[i] IN
        (g.extension = item.extension => envs[i] = g.env) =>
            SavedData(i, g.r.item, envs) = SavedData(i, item, envs)

\* The presses of the play button that are possible in this state
Presses ==
    {[selected |-> selected_index(index),
      r |-> on_press(playback, file_list, selected_index(index), env)] :
        index \in Selections, env \in PressEnvs}

\* The handle plays the audio of the item
PlaysAudioOf(handle, item) ==
    LET wav == get_audio_wav(item, loop_end(item))
    IN wav.ok /\ wav.v = handle.sound

\* C38: while a handle exists that is not stopped, a press of the play
\* button pauses or resumes it only if nothing is selected or the selected
\* item is the item whose audio the handle plays; with another item
\* selected, the sound of the handle is stopped.
C38PressTogglesPlayingItemOnly ==
    IsSome(playback.playing_handle) /\ Unwrap(playback.playing_handle).state # "Stopped" =>
        \A press \in Presses :
            LET handle == Unwrap(playback.playing_handle)
                plays_selected ==
                    /\ IsSome(press.selected)
                    /\ PlaysAudioOf(handle, file_list.items[Unwrap(press.selected) + 1])
            IN /\ press.r.cmds \in {<<"pause">>, <<"resume">>} =>
                    IsNone(press.selected) \/ plays_selected
               /\ IsSome(press.selected) /\ ~plays_selected /\ press.r.ret.ok =>
                    Head(press.r.cmds) = "stop"

\* A step of Message::Quit
QuitStep ==
    /\ IsSome(fn_ret')
    /\ fn_args'.fn = "Message::Quit"
    /\ <<fn_args', fn_ret'>> # <<fn_args, fn_ret>>

\* C39: a Quit message on a modified list shows the confirmation, and the
\* process exits only when the answer is "Quit"; with any other answer the
\* program keeps running, and the list and its modified flag are what they
\* were.  On an unmodified list Quit exits without asking.
C39QuitAsksWhenModified ==
    [][QuitStep =>
          LET r == Unwrap(fn_ret') IN
          /\ r.asked = file_list.modified
          /\ r.running = IsNone(r.exit)
          /\ IF file_list.modified /\ fn_args'.choice # Some(0)
             THEN /\ r.running
                  /\ IsNone(r.reset)
                  /\ file_list' = file_list
                  /\ file_list'.modified
             ELSE /\ ~r.running
                  /\ IsSome(r.exit)]_vars

\* A modified list with an item: the user answered "Go back" and the
\* program runs on with the list still modified
C39Witness ==
    /\ IsSome(fn_ret)
    /\ fn_args.fn = "Message::Quit"
    /\ fn_args.modified
    /\ fn_args.choice = Some(1)
    /\ Unwrap(fn_ret).asked
    /\ Unwrap(fn_ret).running
    /\ file_list.modified
    /\ Len(file_list.items) > 0

====
